---- MODULE Spec2Model ----
(***************************************************************************)
(* Tenant secret vault of stripe-cart: the ENCRYPTED(base64) wrapper, the  *)
(* KMS helpers of every module that handles secrets, and the handlers that *)
(* write and read a tenant's stripe-keys record.                           *)
(*                                                                         *)
(* A Python str is a sequence of one-character strings, bytes are a        *)
(* sequence of 0..255, None is VNull.  A Python call that may raise        *)
(* returns a record [exc, val, calls]: exc is "none" or the exception      *)
(* class, calls the KMS requests it issued, in order.                      *)
(***************************************************************************)
EXTENDS Integers, Sequences, FiniteSets, TLC

VARIABLES table, appConfig, peer, clock, last, arg, inflight, orders, shipments, cache

vars == <<table, appConfig, peer, clock, last, arg, inflight, orders, shipments, cache>>

(***************************************************************************)
(* Characters, str.encode("utf-8") and bytes.decode("utf-8") on ASCII      *)
(***************************************************************************)
Printable ==
    << " ", "!", "DQUOTE", "#", "$", "%", "&", "'", "(", ")", "*", "+", ",", "-", ".", "/",
       "0", "1", "2", "3", "4", "5", "6", "7", "8", "9", ":", ";", "<", "=", ">", "?",
       "@", "A", "B", "C", "D", "E", "F", "G", "H", "I", "J", "K", "L", "M", "N", "O",
       "P", "Q", "R", "S", "T", "U", "V", "W", "X", "Y", "Z", "[", "BSLASH", "]", "^", "_",
       "BTICK", "a", "b", "c", "d", "e", "f", "g", "h", "i", "j", "k", "l", "m", "n", "o",
       "p", "q", "r", "s", "t", "u", "v", "w", "x", "y", "z", "{", "|", "}", "~" >>

OrdOf == [c \in {Printable[i] : i \in 1..Len(Printable)} |->
             31 + (CHOOSE i \in 1..Len(Printable) : Printable[i] = c)]

Ord(c) == OrdOf[c]

Chr(b) == Printable[b - 31]

utf8_encode(s) == [i \in 1..Len(s) |-> Ord(s[i])]

IsText(bytes) == \A i \in 1..Len(bytes) : bytes[i] >= 32 /\ bytes[i] <= 126

utf8_decode(bytes) == [i \in 1..Len(bytes) |-> Chr(bytes[i])]

(***************************************************************************)
(* base64.b64encode / base64.b64decode (binascii, non-strict mode)         *)
(***************************************************************************)
B64Alphabet ==
    << "A", "B", "C", "D", "E", "F", "G", "H", "I", "J", "K", "L", "M", "N", "O", "P",
       "Q", "R", "S", "T", "U", "V", "W", "X", "Y", "Z", "a", "b", "c", "d", "e", "f",
       "g", "h", "i", "j", "k", "l", "m", "n", "o", "p", "q", "r", "s", "t", "u", "v",
       "w", "x", "y", "z", "0", "1", "2", "3", "4", "5", "6", "7", "8", "9", "+", "/" >>

B64Char(n) == B64Alphabet[n + 1]

B64ValOf == [c \in {B64Alphabet[i] : i \in 1..Len(B64Alphabet)} |->
                (CHOOSE i \in 1..Len(B64Alphabet) : B64Alphabet[i] = c) - 1]

IsB64Char(c) == c \in DOMAIN B64ValOf

B64Val(c) == B64ValOf[c]

RECURSIVE b64encode(_)
b64encode(bytes) ==
    IF Len(bytes) = 0 THEN << >>
    ELSE IF Len(bytes) = 1 THEN
        << B64Char(bytes[1] \div 4), B64Char((bytes[1] % 4) * 16), "=", "=" >>
    ELSE IF Len(bytes) = 2 THEN
        << B64Char(bytes[1] \div 4),
           B64Char((bytes[1] % 4) * 16 + bytes[2] \div 16),
           B64Char((bytes[2] % 16) * 4), "=" >>
    ELSE
        << B64Char(bytes[1] \div 4),
           B64Char((bytes[1] % 4) * 16 + bytes[2] \div 16),
           B64Char((bytes[2] % 16) * 4 + bytes[3] \div 64),
           B64Char(bytes[3] % 64) >>
        \o b64encode(SubSeq(bytes, 4, Len(bytes)))

\* a2b_base64: characters outside the alphabet are skipped, a pad sequence
\* that completes a quad ends the parse, a dangling quad is binascii.Error
RECURSIVE a2b_scan(_, _, _, _, _, _)
a2b_scan(s, i, quad_pos, leftchar, pads, out) ==
    IF i > Len(s) THEN
        IF quad_pos # 0 THEN [ok |-> FALSE, bytes |-> << >>]
        ELSE [ok |-> TRUE, bytes |-> out]
    ELSE IF s[i] = "=" THEN
        IF quad_pos >= 2 /\ quad_pos + pads + 1 >= 4
        THEN [ok |-> TRUE, bytes |-> out]
        ELSE a2b_scan(s, i + 1, quad_pos, leftchar,
                      IF quad_pos >= 2 THEN pads + 1 ELSE pads, out)
    ELSE IF ~IsB64Char(s[i]) THEN a2b_scan(s, i + 1, quad_pos, leftchar, pads, out)
    ELSE LET v == B64Val(s[i]) IN
        CASE quad_pos = 0 -> a2b_scan(s, i + 1, 1, v, 0, out)
          [] quad_pos = 1 ->
                a2b_scan(s, i + 1, 2, v % 16, 0, Append(out, leftchar * 4 + v \div 16))
          [] quad_pos = 2 ->
                a2b_scan(s, i + 1, 3, v % 4, 0, Append(out, leftchar * 16 + v \div 4))
          [] OTHER ->
                a2b_scan(s, i + 1, 0, 0, 0, Append(out, leftchar * 64 + v))

b64decode(s) == a2b_scan(s, 1, 0, 0, 0, << >>)

(***************************************************************************)
(* Python values and call results                                          *)
(***************************************************************************)
VNull == [k |-> "null"]

VStr(s) == [k |-> "str", s |-> s]

IsStr(v) == v.k = "str"

\* str(v) of a JSON scalar
PyStr(v) == IF v.k = "str" THEN v.s ELSE << "N", "o", "n", "e" >>

Ret(v, calls) == [exc |-> "none", code |-> "", val |-> v, calls |-> calls]

Raise(e, code, calls) == [exc |-> e, code |-> code, val |-> << >>, calls |-> calls]

KmsCall(op, ctx) == [op |-> op, ctx |-> ctx]

(***************************************************************************)
(* The ENCRYPTED(...) wrapper                                              *)
(***************************************************************************)
Prefix == << "E", "N", "C", "R", "Y", "P", "T", "E", "D", "(" >>

startswith(s, p) == Len(s) >= Len(p) /\ SubSeq(s, 1, Len(p)) = p

endswith(s, p) == Len(s) >= Len(p) /\ SubSeq(s, Len(s) - Len(p) + 1, Len(s)) = p

IsWrapped(s) == startswith(s, Prefix) /\ endswith(s, << ")" >>)

\* s[len("ENCRYPTED("):-1]
StripWrapper(s) == SubSeq(s, Len(Prefix) + 1, Len(s) - 1)

_unwrap_encrypted(s) == IF IsWrapped(s) THEN StripWrapper(s) ELSE s

Wrap(b64) == Prefix \o b64 \o << ")" >>

(***************************************************************************)
(* The KMS service: Encrypt binds the encryption context and a checksum    *)
(* into the blob, Decrypt rejects a blob whose context or checksum differs *)
(***************************************************************************)
ENCRYPTION_CONTEXT == "stripe-cart"

SHIPPING_API_ENC_CTX == "shipping-api"

NoContext == "none"

KmsTag(ctx) ==
    CASE ctx = ENCRYPTION_CONTEXT -> 1
      [] ctx = SHIPPING_API_ENC_CTX -> 2
      [] OTHER -> 0

RECURSIVE ByteSum(_)
ByteSum(bytes) == IF Len(bytes) = 0 THEN 0 ELSE bytes[1] + ByteSum(Tail(bytes))

KmsBlob(pt, ctx) ==
    << KmsTag(ctx) >> \o [i \in 1..Len(pt) |-> (pt[i] + 7) % 256]
        \o << (KmsTag(ctx) + ByteSum(pt)) % 256 >>

KmsPlain(blob) == [i \in 1..(Len(blob) - 2) |-> (blob[i + 1] + 249) % 256]

\* kms.encrypt(KeyId, Plaintext, EncryptionContext); fault is the service's
\* failure for this call ("none" when it answers)
KmsEncrypt(pt, ctx, fault) ==
    IF Len(pt) = 0 THEN Raise("ParamValidationError", "", << >>)
    ELSE IF fault # "none" THEN Raise("ClientError", fault, << KmsCall("Encrypt", ctx) >>)
    ELSE Ret(KmsBlob(pt, ctx), << KmsCall("Encrypt", ctx) >>)

\* kms.decrypt(CiphertextBlob, EncryptionContext)
KmsDecrypt(blob, ctx, fault) ==
    IF Len(blob) = 0 THEN Raise("ParamValidationError", "", << >>)
    ELSE IF fault # "none" THEN Raise("ClientError", fault, << KmsCall("Decrypt", ctx) >>)
    ELSE IF Len(blob) >= 3 /\ blob = KmsBlob(KmsPlain(blob), ctx)
         THEN Ret(KmsPlain(blob), << KmsCall("Decrypt", ctx) >>)
    ELSE Raise("ClientError", "InvalidCiphertextException", << KmsCall("Decrypt", ctx) >>)

KmsFaults == {"none", "AccessDeniedException"}

(***************************************************************************)
(* layers/kms_utils/python/kms_utils.py                                    *)
(***************************************************************************)
\* a kms_encrypt that hands back an input that already looks wrapped
kms_encrypt_skip_wrapped(plaintext, fault) ==
    IF IsWrapped(plaintext) THEN Ret(plaintext, << >>)
    ELSE LET r == KmsEncrypt(utf8_encode(plaintext), ENCRYPTION_CONTEXT, fault) IN
         IF r.exc # "none" THEN r
         ELSE Ret(Wrap(b64encode(r.val)), r.calls)

kms_encrypt(plaintext, fault) ==
    LET r == KmsEncrypt(utf8_encode(plaintext), ENCRYPTION_CONTEXT, fault) IN
    IF r.exc # "none" THEN r
    ELSE Ret(Wrap(b64encode(r.val)), r.calls)

kms_decrypt(ciphertext_wrapped, fault) ==
    IF Len(ciphertext_wrapped) = 0 THEN Raise("ValueError", "", << >>)
    ELSE LET d == b64decode(_unwrap_encrypted(ciphertext_wrapped)) IN
         IF ~d.ok THEN Raise("ValueError", "", << >>)
         ELSE KmsDecrypt(d.bytes, ENCRYPTION_CONTEXT, fault)

kms_decrypt_wrapped(blob, fault) ==
    IF Len(blob) = 0 THEN Ret(<< >>, << >>)
    ELSE IF ~IsWrapped(blob) THEN Ret(blob, << >>)
    ELSE LET r == kms_decrypt(blob, fault) IN
         IF r.exc # "none" THEN Raise("ValueError", r.code, r.calls)
         ELSE IF ~IsText(r.val) THEN Raise("ValueError", "", r.calls)
         ELSE Ret(utf8_decode(r.val), r.calls)

(***************************************************************************)
(* src/create_checkout.py, src/admin_webhook_test.py                       *)
(***************************************************************************)
decrypt_kms(encrypted_value, fault) ==
    IF ~startswith(encrypted_value, Prefix) THEN Ret(encrypted_value, << >>)
    ELSE LET d == b64decode(StripWrapper(encrypted_value)) IN
         IF ~d.ok THEN Raise("BinasciiError", "", << >>)
         ELSE LET r == KmsDecrypt(d.bytes, ENCRYPTION_CONTEXT, fault) IN
              IF r.exc # "none" THEN r
              ELSE IF ~IsText(r.val) THEN Raise("UnicodeDecodeError", "", r.calls)
              ELSE Ret(utf8_decode(r.val), r.calls)

_decrypt_secret(value, fault) ==
    IF Len(value) = 0 THEN Ret(<< >>, << >>)
    ELSE IF ~startswith(value, Prefix) THEN Ret(value, << >>)
    ELSE LET d == b64decode(_unwrap_encrypted(value)) IN
         IF ~d.ok THEN Raise("BinasciiError", "", << >>)
         ELSE LET r == KmsDecrypt(d.bytes, ENCRYPTION_CONTEXT, fault) IN
              IF r.exc # "none" THEN r
              ELSE IF ~IsText(r.val) THEN Raise("UnicodeDecodeError", "", r.calls)
              ELSE Ret(utf8_decode(r.val), r.calls)

(***************************************************************************)
(* KMS helpers of src/admin_keys.py, src/tenant_config.py,                 *)
(* src/stripe_cart.py, trash/shipping_api_old.py, trash/admin_keys_old.py  *)
(***************************************************************************)
admin_keys_kms_encrypt(plaintext, fault) ==
    LET r == KmsEncrypt(plaintext, ENCRYPTION_CONTEXT, fault) IN
    IF r.exc # "none" THEN r
    ELSE Ret(Wrap(b64encode(r.val)), r.calls)

admin_keys_kms_decrypt(ciphertext_wrapped, fault) ==
    LET d == b64decode(_unwrap_encrypted(ciphertext_wrapped)) IN
    IF ~d.ok THEN Raise("BinasciiError", "", << >>)
    ELSE KmsDecrypt(d.bytes, ENCRYPTION_CONTEXT, fault)

tenant_config_kms_encrypt(plaintext, fault) ==
    LET r == KmsEncrypt(utf8_encode(plaintext), ENCRYPTION_CONTEXT, fault) IN
    IF r.exc # "none" THEN r
    ELSE Ret(Wrap(b64encode(r.val)), r.calls)

\* a helper that returns the base64 text without the wrapper
_kms_encrypt_wrapped_bare(plaintext, fault) ==
    LET r == KmsEncrypt(utf8_encode(plaintext), ENCRYPTION_CONTEXT, fault) IN
    IF r.exc # "none" THEN r
    ELSE Ret(b64encode(r.val), r.calls)

_kms_encrypt_wrapped(plaintext, fault) ==
    LET r == KmsEncrypt(utf8_encode(plaintext), ENCRYPTION_CONTEXT, fault) IN
    IF r.exc # "none" THEN r
    ELSE Ret(Wrap(b64encode(r.val)), r.calls)

\* a helper that lets the failure of the decoding or of Decrypt out
_kms_decrypt_wrapped_raising(blob, fault) ==
    IF ~(Len(blob) > 0 /\ IsWrapped(blob)) THEN Ret(blob, << >>)
    ELSE LET d == b64decode(StripWrapper(blob)) IN
         IF ~d.ok THEN Raise("BinasciiError", "", << >>)
         ELSE LET r == KmsDecrypt(d.bytes, ENCRYPTION_CONTEXT, fault) IN
              IF r.exc # "none" THEN r
              ELSE IF ~IsText(r.val) THEN Ret(<< >>, r.calls)
              ELSE Ret(utf8_decode(r.val), r.calls)

_kms_decrypt_wrapped(blob, fault) ==
    IF ~(Len(blob) > 0 /\ IsWrapped(blob)) THEN Ret(blob, << >>)
    ELSE LET d == b64decode(StripWrapper(blob)) IN
         IF ~d.ok THEN Ret(<< >>, << >>)
         ELSE LET r == KmsDecrypt(d.bytes, ENCRYPTION_CONTEXT, fault) IN
              IF r.exc # "none" \/ ~IsText(r.val) THEN Ret(<< >>, r.calls)
              ELSE Ret(utf8_decode(r.val), r.calls)

shipping_api_old_kms_encrypt(plaintext, fault) ==
    LET r == KmsEncrypt(utf8_encode(plaintext), SHIPPING_API_ENC_CTX, fault) IN
    IF r.exc # "none" THEN r
    ELSE Ret(Wrap(b64encode(r.val)), r.calls)

shipping_api_old_kms_decrypt_wrapped(ciphertext_wrapped, fault) ==
    LET d == b64decode(_unwrap_encrypted(ciphertext_wrapped)) IN
    IF ~d.ok THEN Ret(VNull, << >>)
    ELSE LET r == KmsDecrypt(d.bytes, SHIPPING_API_ENC_CTX, fault) IN
         IF r.exc # "none" \/ ~IsText(r.val) THEN Ret(VNull, r.calls)
         ELSE Ret(VStr(utf8_decode(r.val)), r.calls)

\* a kms_decrypt_with_fallback that retries after any failure of the first call
kms_decrypt_with_fallback_retry_any(enc_str, fault, fault2) ==
    LET d == b64decode(_unwrap_encrypted(enc_str)) IN
    IF ~d.ok THEN Raise("BinasciiError", "", << >>)
    ELSE LET r == KmsDecrypt(d.bytes, ENCRYPTION_CONTEXT, fault) IN
         IF r.exc = "ClientError"
         THEN LET r2 == KmsDecrypt(d.bytes, NoContext, fault2) IN
              [r2 EXCEPT !.calls = r.calls \o r2.calls]
         ELSE r

\* the second fault is the service's answer to the context-less retry
kms_decrypt_with_fallback(enc_str, fault, fault2) ==
    LET d == b64decode(_unwrap_encrypted(enc_str)) IN
    IF ~d.ok THEN Raise("BinasciiError", "", << >>)
    ELSE LET r == KmsDecrypt(d.bytes, ENCRYPTION_CONTEXT, fault) IN
         IF r.exc = "ClientError" /\ r.code = "InvalidCiphertextException"
         THEN LET r2 == KmsDecrypt(d.bytes, NoContext, fault2) IN
              [r2 EXCEPT !.calls = r.calls \o r2.calls]
         ELSE r

(***************************************************************************)
(* The helpers applied to one input string                                 *)
(***************************************************************************)
MaxStrLen == 2

InputAlphabet == {"Q", "=", ")", "s"}

ShortStrings == UNION {[1..n -> InputAlphabet] : n \in 0..MaxStrLen}

SamplePlain == {<< "s", "k" >>, << "w", "h", "_", "1" >>}

\* wrapped ciphertexts of the sample secrets under each context a module
\* uses, and one written before the context convention
SampleWrapped ==
    {Wrap(b64encode(KmsBlob(utf8_encode(p), c))) :
        p \in SamplePlain, c \in {ENCRYPTION_CONTEXT, SHIPPING_API_ENC_CTX, NoContext}}

KmsInputs ==
    ShortStrings \cup {Prefix \o s : s \in ShortStrings} \cup SamplePlain
        \cup SampleWrapped \cup {StripWrapper(w) : w \in SampleWrapped}

NoRequest == [caller |-> "", body |-> << >>]

Idle ==
    [op |-> "init", req |-> NoRequest, status |-> 0, body |-> << >>,
     out |-> Ret(<< >>, << >>)]

Applied(name, result) == [Idle EXCEPT !.op = name, !.out = result]

\* config_loader at import: _cache_data = None, _cache_expires_at = 0.0
ColdCache == [data |-> [k |-> "null"], expires_at |-> 0, read_at |-> 0]

StoreIdle ==
    /\ table = << >>
    /\ appConfig = << >>
    /\ peer = << >>
    /\ clock = 0
    /\ orders = << >>
    /\ shipments = << >>
    /\ cache = ColdCache

InitKms ==
    /\ StoreIdle
    /\ inflight = << >>
    /\ arg \in KmsInputs
    /\ last = Idle

Apply(name, result) ==
    /\ last' = Applied(name, result)
    /\ UNCHANGED <<table, appConfig, peer, clock, arg, inflight, orders, shipments, cache>>

ApplyKmsEncrypt == \E f \in KmsFaults : Apply("kms_encrypt", kms_encrypt(arg, f))

ApplyKmsDecrypt == \E f \in KmsFaults : Apply("kms_decrypt", kms_decrypt(arg, f))

ApplyKmsDecryptWrapped ==
    \E f \in KmsFaults : Apply("kms_decrypt_wrapped", kms_decrypt_wrapped(arg, f))

\* kms_decrypt_wrapped(kms_encrypt(s)) with a KMS that answers
ApplyRoundTrip ==
    LET e == kms_encrypt(arg, "none") IN
    Apply("round_trip", IF e.exc # "none" THEN e
                        ELSE LET r == kms_decrypt_wrapped(e.val, "none") IN
                             [r EXCEPT !.calls = e.calls \o r.calls])

ApplyDecryptKms == \E f \in KmsFaults : Apply("decrypt_kms", decrypt_kms(arg, f))

ApplyDecryptSecret == \E f \in KmsFaults : Apply("_decrypt_secret", _decrypt_secret(arg, f))

ApplyAdminKeysEncrypt ==
    \E f \in KmsFaults :
        Apply("admin_keys.kms_encrypt", admin_keys_kms_encrypt(utf8_encode(arg), f))

ApplyAdminKeysDecrypt ==
    \E f \in KmsFaults : Apply("admin_keys.kms_decrypt", admin_keys_kms_decrypt(arg, f))

ApplyTenantConfigEncrypt ==
    \E f \in KmsFaults : Apply("tenant_config.kms_encrypt", tenant_config_kms_encrypt(arg, f))

ApplyStripeCartEncrypt ==
    \E f \in KmsFaults : Apply("stripe_cart._kms_encrypt_wrapped", _kms_encrypt_wrapped(arg, f))

ApplyStripeCartDecrypt ==
    \E f \in KmsFaults : Apply("stripe_cart._kms_decrypt_wrapped", _kms_decrypt_wrapped(arg, f))

ApplyShippingOldEncrypt ==
    \E f \in KmsFaults :
        Apply("shipping_api_old._kms_encrypt", shipping_api_old_kms_encrypt(arg, f))

ApplyShippingOldDecrypt ==
    \E f \in KmsFaults :
        Apply("shipping_api_old._kms_decrypt_wrapped",
              shipping_api_old_kms_decrypt_wrapped(arg, f))

\* the request records the service's answers to the first call and the retry
ApplyDecryptWithFallback ==
    \E f \in KmsFaults, f2 \in KmsFaults :
        /\ last' = [Applied("kms_decrypt_with_fallback", kms_decrypt_with_fallback(arg, f, f2))
                       EXCEPT !.req = [caller |-> "", body |-> [fault |-> f, fault2 |-> f2]]]
        /\ UNCHANGED <<table, appConfig, peer, clock, arg, inflight, orders, shipments, cache>>

NextKms ==
    \/ ApplyKmsEncrypt
    \/ ApplyKmsDecrypt
    \/ ApplyKmsDecryptWrapped
    \/ ApplyRoundTrip
    \/ ApplyDecryptKms
    \/ ApplyDecryptSecret
    \/ ApplyAdminKeysEncrypt
    \/ ApplyAdminKeysDecrypt
    \/ ApplyTenantConfigEncrypt
    \/ ApplyStripeCartEncrypt
    \/ ApplyStripeCartDecrypt
    \/ ApplyShippingOldEncrypt
    \/ ApplyShippingOldDecrypt
    \/ ApplyDecryptWithFallback

SpecKms == InitKms /\ [][NextKms]_vars

(***************************************************************************)
(* The stripe-keys table, the app-config table and DynamoDB update_item    *)
(***************************************************************************)
VTime(t) == [k |-> "time", t |-> t]

VDict(d) == [k |-> "dict", d |-> d]

\* bool(v) of a stored or supplied value
PyTruthy(v) ==
    CASE v.k = "null" -> FALSE
      [] v.k = "str" -> Len(v.s) > 0
      [] v.k = "dict" -> DOMAIN v.d # {}
      [] OTHER -> TRUE

Merge(old, new) ==
    [f \in DOMAIN old \cup DOMAIN new |-> IF f \in DOMAIN new THEN new[f] ELSE old[f]]

One(f, v) == [x \in {f} |-> v]

\* table.get_item(Key={"clientID": c}).get("Item") or {}
GetItem(tbl, c) == IF c \in DOMAIN tbl THEN tbl[c] ELSE << >>

\* table.update_item(Key={"clientID": c}, UpdateExpression="SET ..."): an
\* upsert of the named attributes, every other attribute kept
update_item(tbl, c, fields) ==
    [x \in DOMAIN tbl \cup {c} |-> IF x = c THEN Merge(GetItem(tbl, c), fields) ELSE tbl[x]]

TenantId == "c1"

ClientIdChars == << "c", "1" >>

Callers == {"c1", "c2", ""}

PutCallers == {"c1", "c2"}

\* the order in which a handler walks the fields of a request
FieldOrder ==
    << "stripe_publishable_key", "pk_test", "pk_live", "mode", "plan", "landing_pages",
       "updated_at", "created_at", "client_name", "webhook_url_test", "webhook_url_live",
       "stripe_secret_key", "stripe_webhook_secret", "sk_test", "sk_live",
       "wh_secret_test", "wh_secret_live", "shippo_api_key", "easypost_api_key",
       "shipstation_api_key", "shipstation_api_secret", "easyship_api_key" >>

InOrder(fields) == SelectSeq(FieldOrder, LAMBDA f : f \in fields)

IndexOf(seq, x) == IF \E i \in 1..Len(seq) : seq[i] = x
                   THEN CHOOSE i \in 1..Len(seq) : seq[i] = x
                   ELSE 0

RECURSIVE CallsOf(_, _)
CallsOf(results, order) ==
    IF Len(order) = 0 THEN << >>
    ELSE results[order[1]].calls \o CallsOf(results, Tail(order))

(***************************************************************************)
(* src/admin_keys.py                                                       *)
(***************************************************************************)
WEBHOOK_BASE_URL_TEST ==
    << "h", "t", "t", "p", "s", ":", "/", "/", "a", "p", "i", "-", "d", "e", "v", ".",
       "j", "u", "n", "i", "o", "r", "b", "a", "y", ".", "c", "o", "m" >>

WEBHOOK_BASE_URL_LIVE ==
    << "h", "t", "t", "p", "s", ":", "/", "/", "c", "h", "e", "c", "k", "o", "u", "t", ".",
       "j", "u", "n", "i", "o", "r", "b", "a", "y", ".", "c", "o", "m" >>

RECURSIVE rstrip_slash(_)
rstrip_slash(s) ==
    IF Len(s) > 0 /\ s[Len(s)] = "/" THEN rstrip_slash(SubSeq(s, 1, Len(s) - 1)) ELSE s

_default_webhook_url(client_id, mode) ==
    LET base == IF mode = "test" THEN WEBHOOK_BASE_URL_TEST ELSE WEBHOOK_BASE_URL_LIVE IN
    IF Len(base) = 0 \/ Len(client_id) = 0 THEN VNull
    ELSE VStr(rstrip_slash(base) \o << "/", "w", "e", "b", "h", "o", "o", "k", "/" >>
                \o client_id)

ADMIN_SECRET_FIELDS ==
    {"stripe_secret_key", "sk_test", "sk_live", "wh_secret_test", "wh_secret_live",
     "shippo_api_key", "easypost_api_key", "shipstation_api_key", "easyship_api_key"}

ADMIN_NON_SECRET_FIELDS ==
    {"stripe_publishable_key", "pk_test", "pk_live", "mode", "plan", "landing_pages",
     "updated_at", "created_at", "client_name", "webhook_url_test", "webhook_url_live"}

\* a put_keys that encrypts every supplied secret, wrapped or not
PutKeysToEncrypt_EveryValue(body) ==
    {f \in DOMAIN body \cap ADMIN_SECRET_FIELDS : PyTruthy(body[f])}

\* the supplied secret fields that put_keys hands to kms_encrypt
PutKeysToEncrypt(body) ==
    {f \in DOMAIN body \cap ADMIN_SECRET_FIELDS :
        PyTruthy(body[f]) /\ ~(IsStr(body[f]) /\ IsWrapped(body[f].s))}

_maybe_seed_webhook(item, existing, client_id, field, mode) ==
    IF field \in DOMAIN item THEN item
    ELSE IF field \in DOMAIN existing /\ PyTruthy(existing[field]) THEN item
    ELSE IF _default_webhook_url(client_id, mode) # VNull
         THEN Merge(item, One(field, _default_webhook_url(client_id, mode)))
    ELSE item

\* a put_keys that stores a supplied secret that is empty or null as supplied
put_keys_stores_falsy(client_id, body, existing, now, failing) ==
    LET kept == {f \in DOMAIN body \cap ADMIN_NON_SECRET_FIELDS : body[f] # VNull}
        secret == DOMAIN body \cap ADMIN_SECRET_FIELDS
        order == InOrder(PutKeysToEncrypt(body))
        enc == [f \in PutKeysToEncrypt(body) |->
                   admin_keys_kms_encrypt(utf8_encode(PyStr(body[f])),
                       IF f = failing THEN "AccessDeniedException" ELSE "none")]
        failIdx == IndexOf(order, failing)
        item == [f \in {"updated_at"} \cup kept \cup secret |->
                    IF f \in kept THEN body[f]
                    ELSE IF f \in PutKeysToEncrypt(body) THEN VStr(enc[f].val)
                    ELSE IF f \in secret THEN body[f]
                    ELSE now]
    IN  IF failIdx # 0
        THEN Raise("ClientError", "AccessDeniedException",
                   CallsOf(enc, SubSeq(order, 1, failIdx)))
        ELSE Ret(item, CallsOf(enc, order))

\* the attribute set put_keys builds from the request; failing names the
\* field whose Encrypt call the service refuses ("none": every call answers)
put_keys(client_id, body, existing, now, failing) ==
    LET kept == {f \in DOMAIN body \cap ADMIN_NON_SECRET_FIELDS : body[f] # VNull}
        secret == {f \in DOMAIN body \cap ADMIN_SECRET_FIELDS : PyTruthy(body[f])}
        order == InOrder(PutKeysToEncrypt(body))
        enc == [f \in PutKeysToEncrypt(body) |->
                   admin_keys_kms_encrypt(utf8_encode(PyStr(body[f])),
                       IF f = failing THEN "AccessDeniedException" ELSE "none")]
        failIdx == IndexOf(order, failing)
        item == [f \in {"updated_at"} \cup kept \cup secret |->
                    IF f \in kept THEN body[f]
                    ELSE IF f \in PutKeysToEncrypt(body) THEN VStr(enc[f].val)
                    ELSE IF f \in secret THEN body[f]
                    ELSE now]
        seeded == _maybe_seed_webhook(
                      _maybe_seed_webhook(item, existing, client_id, "webhook_url_test", "test"),
                      existing, client_id, "webhook_url_live", "live")
    IN  IF failIdx # 0
        THEN Raise("ClientError", "AccessDeniedException",
                   CallsOf(enc, SubSeq(order, 1, failIdx)))
        ELSE Ret(seeded, CallsOf(enc, order))

\* an ownership test that refuses a request without a client-id claim
_is_authenticated_owner_strict(token_client, client_id) == token_client = client_id

_is_authenticated_owner(token_client, client_id) ==
    IF token_client # "" THEN token_client = client_id ELSE TRUE

(***************************************************************************)
(* src/tenant_config.py                                                    *)
(***************************************************************************)
TENANT_SECRET_FIELDS ==
    {"stripe_secret_key", "stripe_webhook_secret", "shippo_api_key", "easypost_api_key",
     "shipstation_api_key", "easyship_api_key"}

\* k.startswith("stripe_") or "pk_" or "sk_" or "wh_", over the field names
HasKeysPrefix(k) ==
    k \in {"stripe_publishable_key", "stripe_secret_key", "stripe_webhook_secret",
           "pk_test", "pk_live", "sk_test", "sk_live", "wh_secret_test", "wh_secret_live"}

RoutedToStripeKeys(k) == k \in TENANT_SECRET_FIELDS \/ HasKeysPrefix(k)

TenantToEncrypt(body) ==
    {f \in DOMAIN body \cap TENANT_SECRET_FIELDS :
        ~(IsStr(body[f]) /\ IsWrapped(body[f].s))}

\* the two update sets handle_admin_put builds from the request body
handle_admin_put_updates(body, failing) ==
    LET routed == {k \in DOMAIN body : RoutedToStripeKeys(k)}
        order == InOrder(TenantToEncrypt(body))
        enc == [f \in TenantToEncrypt(body) |->
                   tenant_config_kms_encrypt(PyStr(body[f]),
                       IF f = failing THEN "AccessDeniedException" ELSE "none")]
        bad == {i \in 1..Len(order) : enc[order[i]].exc # "none"}
        failIdx == IF bad = {} THEN 0 ELSE CHOOSE i \in bad : \A j \in bad : i <= j
        keys == [k \in routed |->
                    IF k \in TenantToEncrypt(body) THEN VStr(enc[k].val) ELSE body[k]]
        cfg == [k \in DOMAIN body \ routed |-> body[k]]
    IN  IF failIdx # 0
        THEN Raise(enc[order[failIdx]].exc, enc[order[failIdx]].code,
                   CallsOf(enc, SubSeq(order, 1, failIdx)))
        ELSE Ret([stripe_keys_updates |-> keys, app_config_updates |-> cfg],
                 CallsOf(enc, order))

(***************************************************************************)
(* Requests and handlers over the tenant's record                          *)
(***************************************************************************)
MaxClock == 2

PK1 == << "p", "k", "_", "1" >>

PK2 == << "p", "k", "_", "2" >>

SK1 == << "s", "k", "_", "1" >>

CustomUrl == << "u" >>

\* a value a client read back earlier: the wrapped ciphertext of SK1
W1 == Wrap(b64encode(KmsBlob(utf8_encode(SK1), ENCRYPTION_CONTEXT)))

Bodies(inputs) ==
    UNION {{b \in [S -> UNION {inputs[f] : f \in S}] : \A f \in S : b[f] \in inputs[f]} :
              S \in SUBSET DOMAIN inputs}

PutKeysInputs ==
    [pk_test |-> {VStr(PK1)},
     sk_test |-> {VStr(SK1), VStr(W1)},
     sk_live |-> {VStr(SK1)},
     webhook_url_test |-> {VStr(CustomUrl)}]

TenantConfigInputs ==
    [sk_test |-> {VStr(SK1)},
     stripe_secret_key |-> {VStr(<< >>), VStr(SK1), VStr(W1)},
     shipstation_api_secret |-> {VStr(SK1)}]

PutKeysBodies == Bodies(PutKeysInputs)

TenantConfigBodies == Bodies(TenantConfigInputs)

Request(caller, body) == [caller |-> caller, body |-> body]

Handled(name, req, status, body, result) ==
    [op |-> name, req |-> req, status |-> status, body |-> body, out |-> result]

Init ==
    /\ StoreIdle
    /\ inflight = << >>
    /\ arg = << >>
    /\ last = Idle

\* what a response records of a handler's outcome r: the exception and the
\* KMS calls made
Outcome(r) == [r EXCEPT !.val = << >>]

\* lambda_handler: PUT /admin/stripe-keys.  Every request is handled at a
\* later time than the one before it: clock counts the requests handled.  A
\* caller who is not the owner is refused before the body is parsed
AdminKeysPutStep(caller, body, failing, readOk, writeOk) ==
    LET existing == IF readOk THEN GetItem(table, TenantId) ELSE << >>
        r == put_keys(ClientIdChars, body, existing, VTime(clock + 1), failing)
        req == Request(caller, body)
    IN  IF ~_is_authenticated_owner(caller, TenantId)
        THEN /\ last' = Handled("put_keys", Request(caller, << >>), 403, << >>,
                               Ret(<< >>, << >>))
             /\ UNCHANGED <<table, peer>>
        ELSE IF r.exc # "none"
        THEN /\ last' = Handled("put_keys", req, 502, << >>, Outcome(r))
             /\ UNCHANGED <<table, peer>>
        ELSE IF ~writeOk
        THEN /\ last' = Handled("put_keys", req, 400, << >>, Outcome(r))
             /\ UNCHANGED <<table, peer>>
        ELSE /\ table' = update_item(table, TenantId, r.val)
             /\ UNCHANGED peer
             /\ last' = Handled("put_keys", req, 200,
                           [updated |-> DOMAIN r.val \cup {"clientID"},
                            peer_sync |-> "skipped"], Outcome(r))

AdminKeysPutOver(bodies) ==
    \E caller \in PutCallers, body \in bodies :
        \E failing \in {"none"} \cup PutKeysToEncrypt(body), readOk, writeOk \in BOOLEAN :
            /\ clock < MaxClock
            /\ clock' = clock + 1
            /\ (failing # "none" \/ ~_is_authenticated_owner(caller, TenantId))
                  => (readOk /\ writeOk)
            /\ ~writeOk => readOk
            /\ ~_is_authenticated_owner(caller, TenantId) => DOMAIN body = {}
            /\ AdminKeysPutStep(caller, body, failing, readOk, writeOk)
            /\ UNCHANGED <<appConfig, arg, inflight, orders, shipments, cache>>

AdminKeysPut == AdminKeysPutOver(PutKeysBodies)

\* handle_admin_put: PUT /admin/tenant-config; cfgPuts is the number of
\* app-config put_item calls that succeed
TenantConfigPutStep(body, failing, keysOk, cfgPuts) ==
    LET r == handle_admin_put_updates(body, failing)
        req == Request("", body)
        now == VTime(clock + 1)
        keys == Merge(r.val.stripe_keys_updates, One("updated_at", now))
        cfgOrder == InOrder(DOMAIN r.val.app_config_updates)
        written == {cfgOrder[i] : i \in 1..cfgPuts}
        cfg == [k \in written |-> [value |-> r.val.app_config_updates[k], updated_at |-> now]]
    IN  IF DOMAIN body = {}
        THEN /\ last' = Handled("handle_admin_put", req, 400, << >>, Ret(<< >>, << >>))
             /\ UNCHANGED <<table, appConfig>>
        ELSE IF r.exc # "none"
        THEN /\ last' = Handled("handle_admin_put", req, 502, << >>, Outcome(r))
             /\ UNCHANGED <<table, appConfig>>
        ELSE IF DOMAIN r.val.stripe_keys_updates # {} /\ ~keysOk
        THEN /\ last' = Handled("handle_admin_put", req, 500, << >>, Outcome(r))
             /\ UNCHANGED <<table, appConfig>>
        ELSE /\ table' = IF DOMAIN r.val.stripe_keys_updates # {}
                         THEN update_item(table, TenantId, keys)
                         ELSE table
             /\ appConfig' = Merge(appConfig, cfg)
             /\ last' = Handled("handle_admin_put", req,
                           IF cfgPuts < Len(cfgOrder) THEN 500 ELSE 200, << >>,
                           Outcome(r))

TenantConfigPutOver(bodies) ==
    \E body \in bodies :
        \E failing \in {"none"} \cup TenantToEncrypt(body), keysOk \in BOOLEAN,
           cfgPuts \in 0..Cardinality(DOMAIN body) :
            /\ clock < MaxClock
            /\ clock' = clock + 1
            /\ LET r == handle_admin_put_updates(body, failing) IN
                 IF r.exc # "none" THEN keysOk /\ cfgPuts = 0
                 ELSE /\ cfgPuts <= Cardinality(DOMAIN r.val.app_config_updates)
                      /\ (~keysOk => (cfgPuts = 0 /\ DOMAIN r.val.stripe_keys_updates # {}))
            /\ TenantConfigPutStep(body, failing, keysOk, cfgPuts)
            /\ UNCHANGED <<peer, arg, inflight, orders, shipments, cache>>

TenantConfigPut == TenantConfigPutOver(TenantConfigBodies)

(***************************************************************************)
(* src/stripe_cart.py save_shipping_config, src/shipping_api.py            *)
(***************************************************************************)
Stars(n) == [i \in 1..n |-> "*"]

VBool(b) == [k |-> "bool", b |-> b]

ShippoProvider == << "s", "h", "i", "p", "p", "o" >>

ShippingConfigInputs ==
    [api_key |-> {VStr(SK1), VStr(W1), VStr(Stars(4))},
     api_secret |-> {VStr(SK1)}]

ShippingConfigs == {VNull} \cup {VDict(d) : d \in Bodies(ShippingConfigInputs)}

\* whether save_shipping_config hands the api_key of the request to KMS
SaveEncrypts(shipping_config) ==
    /\ PyTruthy(shipping_config)
    /\ "api_key" \in DOMAIN shipping_config.d
    /\ PyTruthy(shipping_config.d.api_key)
    /\ ~startswith(shipping_config.d.api_key.s, Prefix)
    /\ shipping_config.d.api_key.s # Stars(4)

\* the shipping_config save_shipping_config writes for the one it was sent
save_shipping_config(shipping_config, fault) ==
    IF SaveEncrypts(shipping_config)
    THEN LET r == _kms_encrypt_wrapped(shipping_config.d.api_key.s, fault) IN
         IF r.exc # "none" THEN r
         ELSE Ret(VDict([shipping_config.d EXCEPT !.api_key = VStr(r.val)]), r.calls)
    ELSE Ret(shipping_config, << >>)

\* a save_shipping_config that stores the request as sent when Encrypt fails
SaveShippingConfigStep_PlaintextFallback(shipping_config, fault, writeOk) ==
    LET r == save_shipping_config(shipping_config, fault)
        req == Request("", One("shipping_config", shipping_config))
    IN  IF ~(TenantId \in DOMAIN table)
        THEN /\ last' = Handled("save_shipping_config", req, 400, << >>, Ret(<< >>, << >>))
             /\ UNCHANGED table
        ELSE IF ~writeOk
        THEN /\ last' = Handled("save_shipping_config", req, 400, << >>, Outcome(r))
             /\ UNCHANGED table
        ELSE /\ table' = update_item(table, TenantId,
                             [shipping_provider |-> VStr(ShippoProvider),
                              shipping_config |-> IF r.exc # "none" THEN shipping_config
                                                  ELSE r.val,
                              updated_at |-> VTime(clock + 1)])
             /\ last' = Handled("save_shipping_config", req, 200, << >>, Outcome(r))

SaveShippingConfigStep(shipping_config, fault, writeOk) ==
    LET r == save_shipping_config(shipping_config, fault)
        req == Request("", One("shipping_config", shipping_config))
    IN  IF ~(TenantId \in DOMAIN table)
        THEN /\ last' = Handled("save_shipping_config", req, 400, << >>, Ret(<< >>, << >>))
             /\ UNCHANGED table
        ELSE IF r.exc # "none" \/ ~writeOk
        THEN /\ last' = Handled("save_shipping_config", req, 400, << >>, Outcome(r))
             /\ UNCHANGED table
        ELSE /\ table' = update_item(table, TenantId,
                             [shipping_provider |-> VStr(ShippoProvider),
                              shipping_config |-> r.val,
                              updated_at |-> VTime(clock + 1)])
             /\ last' = Handled("save_shipping_config", req, 200, << >>, Outcome(r))

SaveShippingConfig ==
    \E shipping_config \in ShippingConfigs, fault \in KmsFaults, writeOk \in BOOLEAN :
        /\ clock < MaxClock
        /\ clock' = clock + 1
        /\ fault # "none" => (writeOk /\ TenantId \in DOMAIN table
                                /\ SaveEncrypts(shipping_config))
        /\ ~writeOk => TenantId \in DOMAIN table
        /\ SaveShippingConfigStep(shipping_config, fault, writeOk)
        /\ UNCHANGED <<appConfig, peer, arg, inflight, orders, shipments, cache>>

\* shipping_api._handle_put_config with _write_config: PUT /admin/shipping-config
ShippingPutConfig ==
    \E config \in ShippingConfigs, writeOk \in BOOLEAN :
        LET req == Request("", One("config", config)) IN
        /\ clock < MaxClock
        /\ clock' = clock + 1
        /\ ~writeOk => config # VNull
        /\ IF config = VNull
           THEN /\ last' = Handled("_handle_put_config", req, 400, << >>, Ret(<< >>, << >>))
                /\ UNCHANGED table
           ELSE IF ~writeOk
           THEN /\ last' = Handled("_handle_put_config", req, 500, << >>, Ret(<< >>, << >>))
                /\ UNCHANGED table
           ELSE /\ table' = update_item(table, TenantId, One("shipping_config", config))
                /\ last' = Handled("_handle_put_config", req, 200, << >>, Ret(<< >>, << >>))
        /\ UNCHANGED <<appConfig, peer, arg, inflight, orders, shipments, cache>>

(***************************************************************************)
(* Read endpoints: src/admin_keys.py get_keys, src/tenant_config.py        *)
(* handle_admin_get, src/shipping_api.py _handle_get_config,               *)
(* trash/admin_keys_old.py get_keys                                        *)
(***************************************************************************)
LastChars(s, keep) == IF Len(s) <= keep THEN s ELSE SubSeq(s, Len(s) - keep + 1, Len(s))

_mask_tail(s, keep) ==
    IF Len(s) <= keep THEN Stars(Len(s))
    ELSE Stars(Len(s) - keep) \o LastChars(s, keep)

\* a get_keys that treats the publishable keys as secrets
get_keys_mask_publishable(item) ==
    [k \in DOMAIN item |->
        IF k \in ADMIN_SECRET_FIELDS \cup {"pk_test", "pk_live"} /\ IsStr(item[k])
        THEN IF IsWrapped(item[k].s)
             THEN VDict([encrypted |-> VBool(TRUE), masked |-> VNull])
             ELSE VDict([encrypted |-> VBool(FALSE),
                         masked |-> VStr(_mask_tail(item[k].s, 4))])
        ELSE item[k]]

\* the "keys" the current get_keys answers with, one entry per stored attribute
get_keys(item) ==
    [k \in DOMAIN item |->
        IF k \in ADMIN_SECRET_FIELDS /\ IsStr(item[k])
        THEN IF IsWrapped(item[k].s)
             THEN VDict([encrypted |-> VBool(TRUE), masked |-> VNull])
             ELSE VDict([encrypted |-> VBool(FALSE),
                         masked |-> VStr(_mask_tail(item[k].s, 4))])
        ELSE item[k]]

AdminKeysGet ==
    \E caller \in Callers, readOk \in BOOLEAN :
        LET req == Request(caller, << >>) IN
        /\ clock < MaxClock
        /\ clock' = clock + 1
        /\ last' = IF readOk
                   THEN Handled("get_keys", req, 200, get_keys(GetItem(table, TenantId)),
                                Ret(<< >>, << >>))
                   ELSE Handled("get_keys", req, 400, << >>, Ret(<< >>, << >>))
        /\ UNCHANGED <<table, appConfig, peer, arg, inflight, orders, shipments, cache>>

\* tenant_config._mask_tail: "*" * max(0, len(s) - keep) + s[-keep:] if s else s
tenant_config_mask_tail(s, keep) ==
    IF Len(s) = 0 THEN s
    ELSE Stars(IF Len(s) > keep THEN Len(s) - keep ELSE 0) \o LastChars(s, keep)

_mask_secrets_view(item) ==
    [f \in DOMAIN item |->
        IF f \in TENANT_SECRET_FIELDS /\ IsStr(item[f])
        THEN VStr(tenant_config_mask_tail(item[f].s, 4))
        ELSE item[f]]

_get_tenant_config_from_app_config(cfg) == [k \in DOMAIN cfg |-> cfg[k].value]

TrueStr == << "t", "r", "u", "e" >>

FalseStr == << "f", "a", "l", "s", "e" >>

handle_admin_get(stripe_keys_item, tenant_config, includeSecrets) ==
    [tenant |-> VDict(IF includeSecrets = TrueStr
                      THEN _mask_secrets_view(stripe_keys_item)
                      ELSE stripe_keys_item),
     tenant_config |-> VDict(tenant_config)]

TenantConfigGet ==
    \E caller \in Callers, includeSecrets \in {TrueStr, FalseStr} :
        LET req == Request(caller, One("includeSecrets", VStr(includeSecrets))) IN
        /\ clock < MaxClock
        /\ clock' = clock + 1
        /\ last' = Handled("handle_admin_get", req, 200,
                       handle_admin_get(GetItem(table, TenantId),
                           _get_tenant_config_from_app_config(appConfig), includeSecrets),
                       Ret(<< >>, << >>))
        /\ UNCHANGED <<table, appConfig, peer, arg, inflight, orders, shipments, cache>>

_read_config(item) ==
    IF "shipping_config" \in DOMAIN item /\ item.shipping_config.k = "dict"
    THEN item.shipping_config
    ELSE VDict(<< >>)

\* shipping_api._handle_get_config: GET /admin/shipping-config
ShippingGetConfig ==
    \E caller \in Callers, readOk \in BOOLEAN :
        LET req == Request(caller, << >>) IN
        /\ clock < MaxClock
        /\ clock' = clock + 1
        /\ last' = IF readOk
                   THEN Handled("_handle_get_config", req, 200,
                                One("config", _read_config(GetItem(table, TenantId))),
                                Ret(<< >>, << >>))
                   ELSE Handled("_handle_get_config", req, 500, << >>, Ret(<< >>, << >>))
        /\ UNCHANGED <<table, appConfig, peer, arg, inflight, orders, shipments, cache>>

\* trash/admin_keys_old.py: the earlier GET /admin/stripe-keys
_mask(s, keep) ==
    IF Len(s) = 0 THEN s
    ELSE IF Len(s) <= keep THEN Stars(Len(s))
    ELSE Stars(Len(s) - keep) \o LastChars(s, keep)

admin_keys_old_is_authenticated_owner(sub, client_id) == sub = client_id

VError(code) == [k |-> "error", code |-> code]

OldKeyFields == {"pk_test", "pk_live", "sk_test", "sk_live", "wh_secret_test", "wh_secret_live"}

OldDecrypted(item) ==
    {f \in OldKeyFields \cap DOMAIN item :
        PyTruthy(item[f]) /\ f \notin {"pk_test", "pk_live"}}

\* what process_field makes of the outcome r of kms_decrypt_with_fallback
Processed(r, is_owner) ==
    IF r.exc = "none"
    THEN IF ~IsText(r.val) THEN Raise("UnicodeDecodeError", "", r.calls)
         ELSE IF is_owner THEN Ret(VStr(utf8_decode(r.val)), r.calls)
         ELSE Ret(VDict([masked |-> VStr(_mask(utf8_decode(r.val), 4)),
                         encrypted |-> VBool(TRUE)]), r.calls)
    ELSE IF r.exc = "ClientError"
    THEN IF is_owner
         THEN Ret(VDict([masked |-> VNull, encrypted |-> VBool(TRUE),
                         error |-> VError(r.code)]), r.calls)
         ELSE Ret(VDict([masked |-> VNull, encrypted |-> VBool(TRUE)]), r.calls)
    ELSE r

process_field(item, field, is_owner, fault) ==
    IF ~(field \in DOMAIN item /\ PyTruthy(item[field])) THEN Ret(VNull, << >>)
    ELSE IF field \in {"pk_test", "pk_live"} THEN Ret(item[field], << >>)
    ELSE Processed(kms_decrypt_with_fallback(PyStr(item[field]), fault, "none"), is_owner)

\* the index in order of the first result that is an exception, 0 if none is
FirstRaised(res, order) ==
    IF \E i \in 1..Len(order) : res[order[i]].exc # "none"
    THEN CHOOSE i \in 1..Len(order) :
            /\ res[order[i]].exc # "none"
            /\ \A j \in 1..(i - 1) : res[order[j]].exc = "none"
    ELSE 0

\* the response of a handler that evaluates res field by field in order:
\* the first exception raised, or the values
Collected(res, order, failIdx) ==
    IF failIdx # 0
    THEN Raise(res[order[failIdx]].exc, res[order[failIdx]].code,
               CallsOf(res, SubSeq(order, 1, failIdx)))
    ELSE Ret([f \in DOMAIN res |-> res[f].val], CallsOf(res, order))

CollectedInOrder(res, order) == Collected(res, order, FirstRaised(res, order))

\* failing names the field whose Decrypt call the service refuses
admin_keys_old_get_keys(item, is_owner, failing) ==
    CollectedInOrder([f \in OldKeyFields |->
                         process_field(item, f, is_owner,
                             IF f = failing THEN "AccessDeniedException" ELSE "none")],
                     InOrder(OldKeyFields))

OldGetHandled(req, exists, r) ==
    IF ~exists
    THEN Handled("admin_keys_old.get_keys", req, 200, << >>, Ret(<< >>, << >>))
    ELSE IF r.exc # "none"
    THEN Handled("admin_keys_old.get_keys", req, 502, << >>, r)
    ELSE Handled("admin_keys_old.get_keys", req, 200, r.val, Ret(<< >>, r.calls))

AdminKeysOldGet ==
    \E caller \in Callers :
        \E failing \in {"none"} \cup OldDecrypted(GetItem(table, TenantId)) :
            /\ clock < MaxClock
            /\ clock' = clock + 1
            /\ last' = OldGetHandled(Request(caller, [failing |-> failing]),
                           TenantId \in DOMAIN table,
                           admin_keys_old_get_keys(GetItem(table, TenantId),
                               admin_keys_old_is_authenticated_owner(caller, TenantId),
                               failing))
            /\ UNCHANGED <<table, appConfig, peer, arg, inflight, orders, shipments, cache>>

Next ==
    \/ AdminKeysPut
    \/ TenantConfigPut
    \/ SaveShippingConfig
    \/ ShippingPutConfig
    \/ AdminKeysGet
    \/ TenantConfigGet
    \/ ShippingGetConfig
    \/ AdminKeysOldGet

Spec == Init /\ [][Next]_vars

(***************************************************************************)
(* Properties of the tenant record (Spec)                                  *)
(***************************************************************************)
Rec == GetItem(table, TenantId)

SecretFieldNames ==
    {"sk_test", "sk_live", "wh_secret_test", "wh_secret_live", "stripe_secret_key",
     "stripe_webhook_secret", "shippo_api_key", "easypost_api_key", "shipstation_api_key",
     "easyship_api_key", "shipstation_api_secret"}

IsWrappedValue(v) == IsStr(v) /\ IsWrapped(v.s)

StoredWrapped(tbl, f) ==
    f \in DOMAIN GetItem(tbl, TenantId) /\ IsWrappedValue(GetItem(tbl, TenantId)[f])

\* C1: after any sequence of writes through put_keys and handle_admin_put,
\* every secret field present in the tenant's stripe-keys record holds a
\* value of the form ENCRYPTED(...)
C1_SecretsStoredWrapped ==
    \A f \in SecretFieldNames \cap DOMAIN Rec : IsWrappedValue(Rec[f])

\* C2: a secret field that holds a wrapped value holds a wrapped value after
\* every later write; no step takes a field out of the encrypted state
C2_WriteOnceEncrypt ==
    [][\A f \in SecretFieldNames : StoredWrapped(table, f) => StoredWrapped(table', f)]_vars

ReadEndpoints == {"get_keys", "handle_admin_get", "_handle_get_config"}

IsMaskedShape(v) == v.k = "dict" /\ DOMAIN v.d = {"masked", "encrypted"}

OnlyShapes(d, fields) == \A f \in fields \cap DOMAIN d : IsMaskedShape(d[f])

\* C3: a read answered to a caller who is not the authenticated owner gives,
\* for each secret field, only a {masked, encrypted} shape: neither the
\* plaintext nor the stored ciphertext, whatever the query parameters
C3_NonOwnerSeesOnlyShapes ==
    (last.op \in ReadEndpoints /\ last.status = 200 /\ last.req.caller # TenantId)
        => CASE last.op = "get_keys" -> OnlyShapes(last.body, SecretFieldNames)
             [] last.op = "handle_admin_get" ->
                   /\ OnlyShapes(last.body.tenant.d, SecretFieldNames)
                   /\ OnlyShapes(last.body.tenant_config.d, SecretFieldNames)
             [] OTHER -> OnlyShapes(last.body.config.d, {"api_key", "api_secret"})

ValidCiphertext(v) ==
    IsWrappedValue(v) /\ kms_decrypt_wrapped(v.s, "none").exc = "none"

\* C4: get_keys answered to the authenticated owner returns, for each stored
\* secret field whose value is a valid wrapped ciphertext, the decrypted
\* plaintext (or, when KMS refused the call, the error shape for that field)
C4_OwnerGetsPlaintext ==
    (last.op \in {"get_keys", "admin_keys_old.get_keys"} /\ last.status = 200
        /\ last.req.caller = TenantId)
        => \A f \in SecretFieldNames \cap DOMAIN last.body \cap DOMAIN Rec :
              ValidCiphertext(Rec[f])
                  => \/ last.body[f] = VStr(kms_decrypt_wrapped(Rec[f].s, "none").val)
                     \/ /\ last.body[f].k = "dict"
                        /\ "error" \in DOMAIN last.body[f].d

EncryptingWrites == {"put_keys", "handle_admin_put", "save_shipping_config"}

\* C5: when an Encrypt call fails while put_keys, handle_admin_put or
\* save_shipping_config handles a request, the request fails and both tables
\* are exactly as before it: nothing of the request is written
C5_EncryptFailureAborts ==
    [][(last'.op \in EncryptingWrites /\ last'.out.exc # "none")
          => (last'.status >= 400 /\ table' = table /\ appConfig' = appConfig)]_vars

C5_Witness ==
    /\ last.op = "put_keys"
    /\ last.out.exc = "ClientError"
    /\ Len(last.out.calls) = 2
    /\ last.status = 502
    /\ "pk_test" \in DOMAIN Rec
    /\ "sk_live" \in DOMAIN last.req.body
    /\ "sk_live" \notin DOMAIN Rec

\* C6: a successful put_keys leaves every stored field that the request does
\* not supply, other than updated_at, with the value it had
C6_PutKeysFrame ==
    [][(last'.op = "put_keys" /\ last'.status = 200)
          => \A f \in DOMAIN Rec \ (DOMAIN last'.req.body \cup {"updated_at"}) :
                GetItem(table', TenantId)[f] = Rec[f]]_vars

NotWrapped(body, fields) ==
    {f \in DOMAIN body \cap fields : ~IsWrappedValue(body[f])}

\* C7: put_keys, handle_admin_put and save_shipping_config store a supplied
\* value that is already wrapped unchanged and make no Encrypt call for it,
\* and no stored value carries the wrapper twice
C7_WrappedPassthrough ==
    /\ (last.op = "put_keys" /\ last.status = 200)
          => /\ \A f \in DOMAIN last.req.body \cap ADMIN_SECRET_FIELDS :
                   IsWrappedValue(last.req.body[f]) => Rec[f] = last.req.body[f]
             /\ Len(last.out.calls)
                   = Cardinality({f \in NotWrapped(last.req.body, ADMIN_SECRET_FIELDS) :
                                     PyTruthy(last.req.body[f])})
    /\ (last.op = "handle_admin_put" /\ last.status = 200)
          => /\ \A f \in DOMAIN last.req.body \cap TENANT_SECRET_FIELDS :
                   IsWrappedValue(last.req.body[f]) => Rec[f] = last.req.body[f]
             /\ Len(last.out.calls)
                   = Cardinality(NotWrapped(last.req.body, TENANT_SECRET_FIELDS))
    /\ (last.op = "save_shipping_config" /\ last.status = 200
          /\ PyTruthy(last.req.body.shipping_config)
          /\ "api_key" \in DOMAIN last.req.body.shipping_config.d
          /\ IsWrappedValue(last.req.body.shipping_config.d.api_key))
          => /\ Rec.shipping_config.d.api_key = last.req.body.shipping_config.d.api_key
             /\ last.out.calls = << >>
    /\ \A f \in SecretFieldNames \cap DOMAIN Rec :
          IsWrappedValue(Rec[f]) => ~startswith(StripWrapper(Rec[f].s), Prefix)

C7_Witness ==
    /\ last.op = "put_keys"
    /\ last.status = 200
    /\ "sk_test" \in DOMAIN last.req.body
    /\ last.req.body.sk_test = VStr(W1)
    /\ Rec.sk_test = VStr(W1)
    /\ "sk_live" \in DOMAIN last.req.body
    /\ Len(last.out.calls) = 1

(***************************************************************************)
(* Properties of the helpers (SpecKms)                                     *)
(***************************************************************************)

\* C8: for every non-empty plaintext s, kms_decrypt_wrapped(kms_encrypt(s))
\* returns s, also when s itself has the form ENCRYPTED(...)
C8_RoundTrip ==
    (last.op = "round_trip" /\ Len(arg) > 0)
        => (last.out.exc = "none" /\ last.out.val = arg)

C8_Witness ==
    /\ last.op = "round_trip"
    /\ IsWrapped(arg)
    /\ last.out.exc = "none"
    /\ last.out.val = arg
    /\ Len(last.out.calls) = 2

DecryptEntryPoints == {"kms_decrypt_wrapped", "kms_decrypt", "decrypt_kms", "_decrypt_secret"}

\* C9: every decrypt entry point returns a string that does not both start
\* with ENCRYPTED( and end with ) unchanged, without a KMS call and without
\* raising
C9_LegacyPassthrough ==
    (last.op \in DecryptEntryPoints /\ ~IsWrapped(arg))
        => (last.out.exc = "none" /\ last.out.val = arg /\ last.out.calls = << >>)

\* C10: every Encrypt and every first-attempt Decrypt a secret-handling
\* module issues carries the context {"app": "stripe-cart"}; the only
\* Decrypt without a context is the single legacy retry, and a blob made
\* under the constant context decrypts under no other
C10_ConstantContext ==
    /\ \A i \in 1..Len(last.out.calls) :
          \/ last.out.calls[i].ctx = ENCRYPTION_CONTEXT
          \/ /\ i = 2
             /\ last.op = "kms_decrypt_with_fallback"
             /\ last.out.calls[i] = KmsCall("Decrypt", NoContext)
    /\ \A p \in SamplePlain, c \in {SHIPPING_API_ENC_CTX, NoContext} :
          KmsDecrypt(KmsBlob(utf8_encode(p), ENCRYPTION_CONTEXT), c, "none").exc = "ClientError"

SameOutcome(r, q) == r.exc = q.exc /\ r.code = q.code /\ r.val = q.val

IsInvalidCiphertext(r) == r.exc = "ClientError" /\ r.code = "InvalidCiphertextException"

\* what the fallback decrypt must do, given the outcome first of Decrypt
\* with the context and the outcome retry of Decrypt without one
FallbackProtocol(out, first, retry) ==
    /\ Len(out.calls) <= 2
    /\ Cardinality({i \in 1..Len(out.calls) : out.calls[i].ctx = NoContext}) <= 1
    /\ Len(out.calls) >= 1 => out.calls[1] = KmsCall("Decrypt", ENCRYPTION_CONTEXT)
    /\ IsInvalidCiphertext(first) <=> Len(out.calls) = 2
    /\ IF IsInvalidCiphertext(first)
       THEN out.calls[2] = KmsCall("Decrypt", NoContext) /\ SameOutcome(out, retry)
       ELSE SameOutcome(out, first) /\ out.calls = first.calls

FallbackHolds(out, blob, faults) ==
    FallbackProtocol(out, KmsDecrypt(blob, ENCRYPTION_CONTEXT, faults.fault),
                     KmsDecrypt(blob, NoContext, faults.fault2))

EncryptHelpers ==
    {"kms_encrypt", "admin_keys.kms_encrypt", "tenant_config.kms_encrypt",
     "stripe_cart._kms_encrypt_wrapped"}

\* the CiphertextBlob the service answers for the helper's one Encrypt call
CiphertextBlobOf(s) == KmsEncrypt(utf8_encode(s), ENCRYPTION_CONTEXT, "none").val

\* C19: for every plaintext for which Encrypt succeeds, each encrypt helper
\* returns 'ENCRYPTED(' + base64(CiphertextBlob) + ')': the result has the
\* wrapper around a non-empty base64 interior, and stripping the wrapper
\* and base64-decoding the interior recovers the CiphertextBlob
C19_EncryptWraps ==
    (last.op \in EncryptHelpers /\ last.out.exc = "none")
        => /\ last.out.val = Prefix \o b64encode(CiphertextBlobOf(arg)) \o << ")" >>
           /\ IsWrapped(last.out.val)
           /\ Len(_unwrap_encrypted(last.out.val)) > 0
           /\ \A i \in 1..Len(_unwrap_encrypted(last.out.val)) :
                 IsB64Char(_unwrap_encrypted(last.out.val)[i])
                    \/ _unwrap_encrypted(last.out.val)[i] = "="
           /\ b64decode(_unwrap_encrypted(last.out.val)).ok
           /\ b64decode(_unwrap_encrypted(last.out.val)).bytes = CiphertextBlobOf(arg)

C19_Witness ==
    /\ last.op = "stripe_cart._kms_encrypt_wrapped"
    /\ last.out.exc = "none"
    /\ arg = << "s", "k" >>
    /\ b64decode(StripWrapper(last.out.val)).bytes = KmsBlob(<< 115, 107 >>, ENCRYPTION_CONTEXT)

\* C11: kms_decrypt_with_fallback calls Decrypt with the fixed context first;
\* exactly when that call fails with InvalidCiphertextException it calls
\* Decrypt once more without a context and returns or propagates that second
\* outcome; any other failure propagates with no second call
C11_FallbackOnce ==
    (last.op = "kms_decrypt_with_fallback" /\ b64decode(_unwrap_encrypted(arg)).ok)
        => FallbackHolds(last.out, b64decode(_unwrap_encrypted(arg)).bytes, last.req.body)

C11_Witness ==
    /\ last.op = "kms_decrypt_with_fallback"
    /\ Len(last.out.calls) = 2
    /\ last.out.calls[2] = KmsCall("Decrypt", NoContext)
    /\ last.out.exc = "none"
    /\ last.req.body.fault2 = "none"

OldGet == "admin_keys_old.get_keys"

\* whether the earlier get_keys fails to decrypt the stored value v of field
\* f in the request last records: KMS refused the call, or v does not decode
DecryptFailed(f, v) ==
    \/ last.req.body.failing = f
    \/ kms_decrypt_with_fallback(PyStr(v), "none", "none").exc # "none"
    \/ ~IsText(kms_decrypt_with_fallback(PyStr(v), "none", "none").val)

\* C12: a failure to decrypt one stored secret field in get_keys does not
\* abort the request: the response is returned, every stored key field has
\* its slot filled, and the failing field's slot holds a placeholder object
C12_PerFieldIsolation ==
    (last.op = OldGet /\ TenantId \in DOMAIN table)
        => /\ last.status = 200
           /\ \A f \in OldKeyFields \cap DOMAIN Rec :
                 PyTruthy(Rec[f]) => last.body[f] # VNull
           /\ \A f \in OldDecrypted(Rec) :
                 DecryptFailed(f, Rec[f]) => last.body[f].k = "dict"

\* C13: when decryption of a field fails in get_keys the owner receives
\* {masked: null, encrypted: true, error: <code>} for it and any other caller
\* {masked: null, encrypted: true}
C13_ErrorShapeByOwnership ==
    (last.op = OldGet /\ TenantId \in DOMAIN table)
        => \A f \in OldDecrypted(Rec) :
              DecryptFailed(f, Rec[f])
                  => /\ last.status = 200
                     /\ last.body[f].k = "dict"
                     /\ last.body[f].d.masked = VNull
                     /\ last.body[f].d.encrypted = VBool(TRUE)
                     /\ DOMAIN last.body[f].d
                           = IF last.req.caller = TenantId
                             THEN {"masked", "encrypted", "error"}
                             ELSE {"masked", "encrypted"}

(***************************************************************************)
(* The mask implementations applied to one secret                          *)
(***************************************************************************)
\* kms_utils.mask_secret
mask_secret(secret, keep) ==
    IF Len(secret) = 0 THEN << >>
    ELSE IF Len(secret) <= keep THEN Stars(Len(secret))
    ELSE Stars(Len(secret) - keep) \o LastChars(secret, keep)

MaskKeeps == {1, 4}

ApplyMask(name, keep, masked) ==
    /\ last' = [Applied(name, Ret(masked, << >>))
                   EXCEPT !.req = [caller |-> "", body |-> [keep |-> keep]]]
    /\ UNCHANGED <<table, appConfig, peer, clock, arg, inflight, orders, shipments, cache>>

ApplyMaskSecret == \E keep \in MaskKeeps : ApplyMask("mask_secret", keep, mask_secret(arg, keep))

ApplyAdminKeysMaskTail ==
    \E keep \in MaskKeeps : ApplyMask("admin_keys._mask_tail", keep, _mask_tail(arg, keep))

ApplyTenantConfigMaskTail ==
    \E keep \in MaskKeeps :
        ApplyMask("tenant_config._mask_tail", keep, tenant_config_mask_tail(arg, keep))

NextMask == ApplyMaskSecret \/ ApplyAdminKeysMaskTail \/ ApplyTenantConfigMaskTail

SpecMask == InitKms /\ [][NextMask]_vars

MaskOps == {"mask_secret", "admin_keys._mask_tail", "tenant_config._mask_tail"}

\* C15: every mask implementation returns, for every secret and keep >= 1, a
\* string of the secret's length: all '*' when the secret is no longer than
\* keep, else '*' for all but the last keep characters, which are kept
C15_MaskShape ==
    last.op \in MaskOps
        => /\ Len(last.out.val) = Len(arg)
           /\ last.out.val
                 = IF Len(arg) <= last.req.body.keep
                   THEN Stars(Len(arg))
                   ELSE Stars(Len(arg) - last.req.body.keep)
                           \o SubSeq(arg, Len(arg) - last.req.body.keep + 1, Len(arg))

(***************************************************************************)
(* Publishable keys: the two write paths and the two reads over requests   *)
(* that carry pk_test and pk_live                                          *)
(***************************************************************************)
PublishableKeys == {"pk_test", "pk_live"}

PublishablePutKeysInputs ==
    [pk_test |-> {VStr(PK1), VStr(W1), VStr(<< >>)},
     pk_live |-> {VStr(PK1)},
     sk_test |-> {VStr(SK1)}]

PublishableTenantInputs ==
    [pk_test |-> {VStr(PK2)},
     pk_live |-> {VStr(PK2), VStr(<< >>)},
     stripe_secret_key |-> {VStr(SK1)}]

PublishableKeysPut == AdminKeysPutOver(Bodies(PublishablePutKeysInputs))

PublishableTenantPut == TenantConfigPutOver(Bodies(PublishableTenantInputs))

NextPublishable ==
    PublishableKeysPut \/ PublishableTenantPut \/ AdminKeysGet \/ TenantConfigGet

SpecPublishable == Init /\ [][NextPublishable]_vars

\* the value stored for the tenant under field f in table t, None when absent
Stored(t, f) ==
    IF TenantId \in DOMAIN t /\ f \in DOMAIN t[TenantId] THEN t[TenantId][f] ELSE VNull

\* a write that carried f and changed the record stores the supplied value
\* of f; any other step leaves the stored value of f as it was; the handler
\* calls Encrypt at most once per secret field of the request
PublishableStoredAsSupplied ==
    /\ \A f \in PublishableKeys :
          IF /\ last'.op \in {"put_keys", "handle_admin_put"}
             /\ f \in DOMAIN last'.req.body
             /\ table' # table
          THEN Stored(table', f) = last'.req.body[f]
          ELSE Stored(table', f) = Stored(table, f)
    /\ last'.op \in {"put_keys", "handle_admin_put"}
          => Len(last'.out.calls)
                <= Cardinality(DOMAIN last'.req.body
                                  \cap (ADMIN_SECRET_FIELDS \cup TENANT_SECRET_FIELDS))

\* what a successful read answered for field f, None when it has no slot
Answered(f) ==
    IF last.op = "get_keys"
    THEN IF f \in DOMAIN last.body THEN last.body[f] ELSE VNull
    ELSE IF f \in DOMAIN last.body.tenant.d THEN last.body.tenant.d[f] ELSE VNull

PublishableReadVerbatim ==
    (last.op \in {"get_keys", "handle_admin_get"} /\ last.status = 200)
        => \A f \in PublishableKeys : Answered(f) = Stored(table, f)

\* C14: pk_test and pk_live are stored exactly as last supplied, by every
\* write path and never through Encrypt, and every read (get_keys,
\* handle_admin_get) returns the stored value verbatim to any caller
C14_PublishableVerbatim ==
    [][PublishableStoredAsSupplied]_vars /\ []PublishableReadVerbatim

\* a caller who is not the owner reads, through the masked view, the
\* publishable key that handle_admin_put stored
C14_Witness ==
    /\ last.op = "handle_admin_get"
    /\ last.req.caller = "c2"
    /\ last.req.body.includeSecrets = VStr(TrueStr)
    /\ Stored(table, "pk_test") = VStr(PK2)
    /\ Answered("pk_test") = VStr(PK2)

(***************************************************************************)
(* trash/admin_keys_old.py put_keys: requests in flight.  A request reads  *)
(* the item, builds the whole item from what it read and the body, and     *)
(* writes it back; get_item and put_item are the steps other requests can  *)
(* run between                                                             *)
(***************************************************************************)
Writers == {"w1", "w2"}

Waiting == [pc |-> "idle", body |-> << >>, existing |-> << >>, now |-> VNull]

OldPutInputs ==
    [pk_test |-> {VStr(PK1)}, pk_live |-> {VStr(PK2)}, sk_test |-> {VStr(SK1)}]

OldPutBodies == Bodies(OldPutInputs) \ {<< >>}

ModeTest == << "t", "e", "s", "t" >>

GetOr(d, f, default) == IF f \in DOMAIN d THEN d[f] ELSE default

OldSupplied(body) == {f \in OldKeyFields \cap DOMAIN body : PyTruthy(body[f])}

OldToEncrypt(body) == OldSupplied(body) \ {"pk_test", "pk_live"}

OldKept(body, existing) ==
    {f \in (OldKeyFields \cap DOMAIN existing) \ OldSupplied(body) : PyTruthy(existing[f])}

\* kms_encrypt of trash/admin_keys_old.py
admin_keys_old_kms_encrypt(plaintext, fault) ==
    LET r == KmsEncrypt(plaintext, ENCRYPTION_CONTEXT, fault) IN
    IF r.exc # "none" THEN r
    ELSE Ret(Wrap(b64encode(r.val)), r.calls)

OldEncrypted(body, failing) ==
    [f \in OldToEncrypt(body) |->
        admin_keys_old_kms_encrypt(utf8_encode(PyStr(body[f])),
            IF f = failing THEN "AccessDeniedException" ELSE "none")]

\* the item put_keys builds, given the encryption outcomes enc
OldItem(body, existing, now, enc) ==
    Merge([active |-> GetOr(body, "active", GetOr(existing, "active", VBool(TRUE))),
           mode |-> GetOr(body, "mode", GetOr(existing, "mode", VStr(ModeTest))),
           updated_at |-> now,
           created_at |-> IF DOMAIN existing = {} THEN now
                          ELSE GetOr(existing, "created_at", now)],
          [f \in OldSupplied(body) \cup OldKept(body, existing) |->
              IF f \in OldToEncrypt(body) THEN VStr(enc[f].val)
              ELSE IF f \in OldSupplied(body) THEN body[f]
              ELSE existing[f]])

admin_keys_old_put_keys(body, existing, now, failing) ==
    IF failing # "none"
    THEN Raise("ClientError", "AccessDeniedException",
               CallsOf(OldEncrypted(body, failing),
                       SubSeq(InOrder(OldToEncrypt(body)), 1,
                              IndexOf(InOrder(OldToEncrypt(body)), failing))))
    ELSE Ret(OldItem(body, existing, now, OldEncrypted(body, failing)),
             CallsOf(OldEncrypted(body, failing), InOrder(OldToEncrypt(body))))

\* table.put_item(Item=item): the stored item is replaced as a whole
put_item(tbl, c, item) == [x \in DOMAIN tbl \cup {c} |-> IF x = c THEN item ELSE tbl[x]]

InitOldPut ==
    /\ StoreIdle
    /\ arg = << >>
    /\ last = Idle
    /\ inflight = [w \in Writers |-> Waiting]

\* the owner's request arrives: now is taken and the item is read
OldPutRead(w) ==
    \E body \in OldPutBodies :
        /\ inflight[w].pc # "read"
        /\ clock < MaxClock
        /\ clock' = clock + 1
        /\ inflight' = [inflight EXCEPT ![w] =
                           [pc |-> "read", body |-> body,
                            existing |-> GetItem(table, TenantId),
                            now |-> VTime(clock + 1)]]
        /\ UNCHANGED <<table, appConfig, peer, last, arg, orders, shipments, cache>>

\* a put_item that is refused when the item changed since it was read
OldPutWrite_IfUnchanged(w, r) ==
    /\ inflight[w].pc = "read"
    /\ inflight' = [inflight EXCEPT ![w].pc = "done"]
    /\ IF r.exc # "none"
       THEN /\ last' = Handled("admin_keys_old.put_keys",
                               Request(TenantId, inflight[w].body), 502, << >>, Outcome(r))
            /\ UNCHANGED table
       ELSE IF GetItem(table, TenantId) # inflight[w].existing
       THEN /\ last' = Handled("admin_keys_old.put_keys",
                               Request(TenantId, inflight[w].body), 409, << >>, Outcome(r))
            /\ UNCHANGED table
       ELSE /\ last' = Handled("admin_keys_old.put_keys",
                               Request(TenantId, inflight[w].body), 200,
                               [success |-> VBool(TRUE), updated_at |-> inflight[w].now],
                               Outcome(r))
            /\ table' = put_item(table, TenantId, r.val)
    /\ UNCHANGED <<appConfig, peer, clock, arg, orders, shipments, cache>>

\* the rest of the request, r being what put_keys built from what it read:
\* the secrets are encrypted and the item is written back
OldPutWrite(w, r) ==
    /\ inflight[w].pc = "read"
    /\ inflight' = [inflight EXCEPT ![w].pc = "done"]
    /\ IF r.exc # "none"
       THEN /\ last' = Handled("admin_keys_old.put_keys",
                               Request(TenantId, inflight[w].body), 502, << >>, Outcome(r))
            /\ UNCHANGED table
       ELSE /\ last' = Handled("admin_keys_old.put_keys",
                               Request(TenantId, inflight[w].body), 200,
                               [success |-> VBool(TRUE), updated_at |-> inflight[w].now],
                               Outcome(r))
            /\ table' = put_item(table, TenantId, r.val)
    /\ UNCHANGED <<appConfig, peer, clock, arg, orders, shipments, cache>>

AdminKeysOldRead == \E w \in Writers : OldPutRead(w)

AdminKeysOldWrite ==
    \E w \in Writers :
        \E failing \in {"none"} \cup OldToEncrypt(inflight[w].body) :
            OldPutWrite(w, admin_keys_old_put_keys(inflight[w].body, inflight[w].existing,
                                                   inflight[w].now, failing))

\* the earlier handler shares the tenant's record with the shipping settings
NextOldPut == AdminKeysOldRead \/ AdminKeysOldWrite \/ ShippingPutConfig

SpecOldPut == InitOldPut /\ [][NextOldPut]_vars

\* the fields of the item a finished request supplied
SuppliedBy(w) == OldSupplied(inflight[w].body)

\* w's request finishes in this step having built its item
Finishes(w) ==
    /\ inflight[w].pc = "read"
    /\ inflight'[w].pc = "done"
    /\ last'.out.exc = "none"

\* C16: the earlier put_keys writes back the whole item it built from what
\* it read, whatever was written in between: a request that finishes stores
\* its own fields over a record that holds, of the others, only what it read,
\* so an update made between its read and its write is lost
C16_ReadMergeWriteUnguarded ==
    [][\A w \in Writers :
          Finishes(w)
              => /\ last'.status = 200
                 /\ \A f \in OldKeyFields :
                       f \in DOMAIN table'[TenantId]
                           <=> \/ f \in SuppliedBy(w)
                               \/ (f \in DOMAIN inflight[w].existing
                                      /\ PyTruthy(inflight[w].existing[f]))]_vars

\* both requests answered 200 for different fields and the record holds the
\* field of one of them only
C16_Witness ==
    /\ \A w \in Writers : inflight[w].pc = "done"
    /\ SuppliedBy("w1") = {"pk_test"}
    /\ SuppliedBy("w2") = {"pk_live"}
    /\ last.status = 200
    /\ "pk_live" \in DOMAIN table[TenantId]
    /\ "pk_test" \notin DOMAIN table[TenantId]
    /\ table[TenantId].created_at = inflight["w2"].now

\* C17: the first put_keys for a tenant without a record creates the record,
\* and no step deletes the tenant's record or removes a top-level attribute
\* of it: a record or attribute that exists still exists after every step
C17_NothingRemoved ==
    [][/\ (last'.op = "admin_keys_old.put_keys" /\ last'.status = 200)
             => TenantId \in DOMAIN table'
       /\ TenantId \in DOMAIN table
             => /\ TenantId \in DOMAIN table'
                /\ DOMAIN table[TenantId] \subseteq DOMAIN table'[TenantId]]_vars

\* ENCRYPTED(<base64>): the wrapper around a non-empty valid base64 interior
MatchesWrapperGrammar(v) ==
    /\ IsWrappedValue(v)
    /\ Len(StripWrapper(v.s)) > 0
    /\ b64decode(StripWrapper(v.s)).ok
    /\ b64encode(b64decode(StripWrapper(v.s)).bytes) = StripWrapper(v.s)

StoredShippingConfig ==
    IF "shipping_config" \in DOMAIN Rec /\ Rec.shipping_config.k = "dict"
    THEN Rec.shipping_config.d
    ELSE << >>

\* C18: after any sequence of shipping-config writes the api_key and
\* api_secret stored inside shipping_config are each absent or a value of
\* the form ENCRYPTED(<base64>)
C18_ShippingCredentialsWrapped ==
    \A f \in {"api_key", "api_secret"} \cap DOMAIN StoredShippingConfig :
        MatchesWrapperGrammar(StoredShippingConfig[f])

(***************************************************************************)
(* src/stripe_cart.py load_stripe_tenant_with_offer and the                *)
(* _kms_decrypt_wrapped of src/products.py and src/upsell_processor.py,    *)
(* applied to a stored record whose sk_test is the input string            *)
(***************************************************************************)
products_kms_decrypt_wrapped(blob, fault) ==
    IF Len(blob) = 0 THEN Ret(<< >>, << >>)
    ELSE IF ~IsWrapped(blob) THEN Ret(blob, << >>)
    ELSE IF ~b64decode(StripWrapper(blob)).ok THEN Ret(<< >>, << >>)
    ELSE LET r == KmsDecrypt(b64decode(StripWrapper(blob)).bytes, ENCRYPTION_CONTEXT, fault) IN
         IF r.exc # "none" \/ ~IsText(r.val) THEN Ret(<< >>, r.calls)
         ELSE Ret(utf8_decode(r.val), r.calls)

\* configured: whether STRIPE_KMS_KEY_ARN is set, so that KMS is a client
upsell_processor_kms_decrypt_wrapped(blob, fault, configured) ==
    IF ~(Len(blob) > 0 /\ IsWrapped(blob)) THEN Ret(blob, << >>)
    ELSE IF ~configured THEN Raise("RuntimeError", "", << >>)
    ELSE IF ~b64decode(StripWrapper(blob)).ok THEN Ret(<< >>, << >>)
    ELSE LET r == KmsDecrypt(b64decode(StripWrapper(blob)).bytes, ENCRYPTION_CONTEXT, fault) IN
         IF r.exc # "none" \/ ~IsText(r.val) THEN Ret(<< >>, r.calls)
         ELSE Ret(utf8_decode(r.val), r.calls)

ModeLive == << "l", "i", "v", "e" >>

\* mode = item.get("mode", "test"), "test" unless it is "live"
TenantMode(item) ==
    IF "mode" \in DOMAIN item /\ item.mode = VStr(ModeLive) THEN "live" ELSE "test"

\* what load_stripe_tenant_with_offer returns of the keys, given the
\* outcomes sk and whook of the two _kms_decrypt_wrapped calls
LoadedTenant(item, mode, sk, whook) ==
    Ret([client_id |-> ClientIdChars, mode |-> mode,
         publishable_key |-> item["pk_" \o mode],
         secret_key |-> sk.val, webhook_secret |-> whook.val],
        sk.calls \o whook.calls)

load_stripe_tenant_with_offer(item, fault, fault2) ==
    IF DOMAIN item = {} \/ ~PyTruthy(GetOr(item, "active", VBool(TRUE)))
    THEN Raise("ValueError", "", << >>)
    ELSE IF ~({"pk_" \o TenantMode(item), "sk_" \o TenantMode(item),
               "wh_secret_" \o TenantMode(item)} \subseteq DOMAIN item)
    THEN Raise("KeyError", "", << >>)
    ELSE LoadedTenant(item, TenantMode(item),
             _kms_decrypt_wrapped(PyStr(item["sk_" \o TenantMode(item)]), fault),
             _kms_decrypt_wrapped(PyStr(item["wh_secret_" \o TenantMode(item)]), fault2))

\* a webhook secret encrypted under the fixed context, and a wrapped value
\* whose interior is not base64
WebhookSecrets ==
    {Wrap(b64encode(KmsBlob(utf8_encode(<< "w", "h", "_", "1" >>), ENCRYPTION_CONTEXT))),
     Wrap(<< "Q" >>)}

TenantRecords(sk) ==
    {[pk_test |-> VStr(PK1), sk_test |-> VStr(sk), wh_secret_test |-> VStr(wh)] :
        wh \in WebhookSecrets}

StoredTenants(sk) ==
    TenantRecords(sk)
        \cup {Merge(r, One("active", VBool(FALSE))) : r \in TenantRecords(sk)}
        \cup {Merge(r, One("mode", VStr(ModeLive))) : r \in TenantRecords(sk)}

InitLoad ==
    /\ arg \in KmsInputs
    /\ table \in {<< >>} \cup {One(TenantId, r) : r \in StoredTenants(arg)}
    /\ appConfig = << >>
    /\ peer = << >>
    /\ clock = 0
    /\ inflight = << >>
    /\ orders = << >>
    /\ shipments = << >>
    /\ cache = ColdCache
    /\ last = Idle

\* the request records the service's answers and whether KMS is a client
Loaded(name, faults, result) ==
    /\ last' = [Applied(name, result) EXCEPT !.req = [caller |-> "", body |-> faults]]
    /\ UNCHANGED <<table, appConfig, peer, clock, arg, inflight, orders, shipments, cache>>

DecryptStoredStripeCart ==
    \E f \in KmsFaults :
        Loaded("stripe_cart._kms_decrypt_wrapped", [fault |-> f, configured |-> TRUE],
               _kms_decrypt_wrapped(arg, f))

DecryptStoredProducts ==
    \E f \in KmsFaults :
        Loaded("products._kms_decrypt_wrapped", [fault |-> f, configured |-> TRUE],
               products_kms_decrypt_wrapped(arg, f))

DecryptStoredUpsell ==
    \E f \in KmsFaults, configured \in BOOLEAN :
        Loaded("upsell_processor._kms_decrypt_wrapped",
               [fault |-> f, configured |-> configured],
               upsell_processor_kms_decrypt_wrapped(arg, f, configured))

LoadStripeTenantWithOffer ==
    \E f \in KmsFaults, f2 \in KmsFaults :
        Loaded("load_stripe_tenant_with_offer", [fault |-> f, fault2 |-> f2],
               load_stripe_tenant_with_offer(GetItem(table, TenantId), f, f2))

NextLoad ==
    \/ DecryptStoredStripeCart
    \/ DecryptStoredProducts
    \/ DecryptStoredUpsell
    \/ LoadStripeTenantWithOffer

SpecLoad == InitLoad /\ [][NextLoad]_vars

\* the base64 decoding of the wrapped value s fails, or Decrypt under the
\* fixed context fails given the service's answer fault
DecryptionFails(s, fault) ==
    /\ IsWrapped(s)
    /\ \/ ~b64decode(StripWrapper(s)).ok
       \/ KmsDecrypt(b64decode(StripWrapper(s)).bytes, ENCRYPTION_CONTEXT, fault).exc # "none"

WrappedDecryptHelpers ==
    {"stripe_cart._kms_decrypt_wrapped", "products._kms_decrypt_wrapped",
     "upsell_processor._kms_decrypt_wrapped"}

\* the record load_stripe_tenant_with_offer gets past its lookups with
Loadable(item) ==
    /\ DOMAIN item # {}
    /\ PyTruthy(GetOr(item, "active", VBool(TRUE)))
    /\ {"pk_" \o TenantMode(item), "sk_" \o TenantMode(item),
        "wh_secret_" \o TenantMode(item)} \subseteq DOMAIN item

\* C20: _kms_decrypt_wrapped of stripe_cart, products and upsell_processor,
\* applied to a wrapped value whose base64 decoding or KMS decryption fails,
\* returns "" and raises nothing; load_stripe_tenant_with_offer then returns
\* the empty secret key or webhook secret without raising
C20_SilentEmptySecret ==
    /\ (last.op \in WrappedDecryptHelpers /\ last.req.body.configured
           /\ DecryptionFails(arg, last.req.body.fault))
          => (last.out.exc = "none" /\ last.out.val = << >>)
    /\ (last.op = "load_stripe_tenant_with_offer" /\ Loadable(Rec))
          => /\ last.out.exc = "none"
             /\ DecryptionFails(PyStr(Rec["sk_" \o TenantMode(Rec)]), last.req.body.fault)
                   => last.out.val.secret_key = << >>
             /\ DecryptionFails(PyStr(Rec["wh_secret_" \o TenantMode(Rec)]),
                                last.req.body.fault2)
                   => last.out.val.webhook_secret = << >>

\* the stored sk_test is a ciphertext made under another context, KMS answers
\* both calls, and the tenant is returned with an empty secret key next to a
\* decrypted webhook secret
C20_Witness ==
    /\ last.op = "load_stripe_tenant_with_offer"
    /\ last.req.body = [fault |-> "none", fault2 |-> "none"]
    /\ arg = Wrap(b64encode(KmsBlob(utf8_encode(<< "s", "k" >>), SHIPPING_API_ENC_CTX)))
    /\ last.out.exc = "none"
    /\ last.out.val.secret_key = << >>
    /\ last.out.val.webhook_secret = << "w", "h", "_", "1" >>

(***************************************************************************)
(* put_keys over requests that carry a secret field that is empty or null, *)
(* on records whose secrets are encrypted, legacy plaintext or absent      *)
(***************************************************************************)
EmptySecretPutKeysInputs ==
    [sk_test |-> {VStr(SK1), VStr(<< >>), VNull},
     sk_live |-> {VStr(<< >>)},
     pk_test |-> {VStr(PK1)}]

EmptySecretTenantInputs == [sk_test |-> {VStr(SK1)}, sk_live |-> {VStr(SK1)}]

EmptySecretKeysPut == AdminKeysPutOver(Bodies(EmptySecretPutKeysInputs))

EmptySecretTenantPut == TenantConfigPutOver(Bodies(EmptySecretTenantInputs))

NextEmptySecret == EmptySecretKeysPut \/ EmptySecretTenantPut \/ AdminKeysGet

SpecEmptySecret == Init /\ [][NextEmptySecret]_vars

\* the secret fields a request carries with an empty or null value
FalsySecrets(body) == {f \in DOMAIN body \cap ADMIN_SECRET_FIELDS : ~PyTruthy(body[f])}

\* C21: a put_keys request in which a secret field is present but empty or
\* null makes no Encrypt call for that field and leaves the field's stored
\* value (encrypted, legacy plaintext, or absent) as it was
C21_EmptySecretNoOp ==
    [][last'.op = "put_keys"
          => /\ \A f \in FalsySecrets(last'.req.body) :
                   Stored(table', f) = Stored(table, f)
             /\ Len(last'.out.calls)
                   <= Cardinality((DOMAIN last'.req.body \cap ADMIN_SECRET_FIELDS)
                                     \ FalsySecrets(last'.req.body))]_vars

\* a request with sk_test null and sk_live empty was applied to a record
\* that has no sk_test and whose sk_live is legacy plaintext
C21_Witness ==
    /\ last.op = "put_keys"
    /\ last.status = 200
    /\ FalsySecrets(last.req.body) = {"sk_test", "sk_live"}
    /\ last.req.body.sk_test = VNull
    /\ last.out.calls = << >>
    /\ Stored(table, "sk_live") = VStr(SK1)
    /\ "sk_test" \notin DOMAIN Rec

(***************************************************************************)
(* PUT /admin/stripe-keys by the owner, by another tenant and by a caller  *)
(* whose request carries no client-id claim                                *)
(***************************************************************************)
OwnershipInputs == [pk_test |-> {VStr(PK1), VStr(PK2)}, sk_test |-> {VStr(SK1)}]

OwnershipKeysPut ==
    \E caller \in Callers, body \in Bodies(OwnershipInputs) :
        \E failing \in {"none"} \cup PutKeysToEncrypt(body), writeOk \in BOOLEAN :
            /\ clock < MaxClock
            /\ clock' = clock + 1
            /\ failing # "none" => writeOk
            /\ AdminKeysPutStep(caller, body, failing, TRUE, writeOk)
            /\ UNCHANGED <<appConfig, arg, inflight, orders, shipments, cache>>

NextOwnership == OwnershipKeysPut \/ AdminKeysGet

SpecOwnership == Init /\ [][NextOwnership]_vars

\* C22: a PUT /admin/stripe-keys whose claims carry a client id other than
\* the target's is answered 403 and leaves the record unchanged; a request
\* by the owner or with no client-id claim is not refused, and when it
\* succeeds the record holds what it supplied
C22_OwnerOnlyPut ==
    [][last'.op = "put_keys"
          => IF last'.req.caller \notin {"", TenantId}
             THEN last'.status = 403 /\ table' = table
             ELSE /\ last'.status # 403
                  /\ last'.status = 200
                        => /\ table' # table
                           /\ \A f \in DOMAIN last'.req.body \cap ADMIN_NON_SECRET_FIELDS :
                                 Stored(table', f) = last'.req.body[f]
                           /\ \A f \in DOMAIN last'.req.body \cap ADMIN_SECRET_FIELDS :
                                 IsWrappedValue(Stored(table', f))]_vars

\* the second request handled carried no client-id claim and stored pk_2
C22_Witness ==
    /\ last.op = "put_keys"
    /\ last.req.caller = ""
    /\ last.status = 200
    /\ clock = 2
    /\ last.req.body = [pk_test |-> VStr(PK2)]
    /\ Stored(table, "pk_test") = VStr(PK2)

(***************************************************************************)
(* src/admin_keys.py put_keys: requests in flight.  get_item and           *)
(* update_item are the steps other requests can run between; each of the   *)
(* two callers makes one request                                           *)
(***************************************************************************)
KeysPutInputs ==
    [webhook_url_test |-> {VStr(CustomUrl)}, pk_test |-> {VStr(PK1)}, sk_test |-> {VStr(SK1)}]

InitKeysPut ==
    /\ StoreIdle
    /\ arg = << >>
    /\ last = Idle
    /\ inflight = [w \in Writers |-> Waiting]

\* now is taken and the existing item is read ({} when get_item raises)
KeysPutRead(w) ==
    \E body \in Bodies(KeysPutInputs), readOk \in BOOLEAN :
        /\ inflight[w].pc = "idle"
        /\ clock < MaxClock
        /\ clock' = clock + 1
        /\ inflight' = [inflight EXCEPT ![w] =
                           [pc |-> "read", body |-> body,
                            existing |-> IF readOk THEN GetItem(table, TenantId) ELSE << >>,
                            now |-> VTime(clock + 1)]]
        /\ UNCHANGED <<table, appConfig, peer, last, arg, orders, shipments, cache>>

\* the rest of the request, r being what put_keys built from what it read
KeysPutWrite(w, r, writeOk) ==
    /\ inflight[w].pc = "read"
    /\ IF r.exc # "none"
       THEN /\ last' = Handled("put_keys", Request(TenantId, inflight[w].body), 502, << >>,
                               Outcome(r))
            /\ inflight' = [inflight EXCEPT ![w].pc = "failed"]
            /\ UNCHANGED table
       ELSE IF ~writeOk
       THEN /\ last' = Handled("put_keys", Request(TenantId, inflight[w].body), 400, << >>,
                               Outcome(r))
            /\ inflight' = [inflight EXCEPT ![w].pc = "failed"]
            /\ UNCHANGED table
       ELSE /\ table' = update_item(table, TenantId, r.val)
            /\ inflight' = [inflight EXCEPT ![w].pc = "done"]
            /\ last' = Handled("put_keys", Request(TenantId, inflight[w].body), 200,
                               [updated |-> DOMAIN r.val \cup {"clientID"},
                                peer_sync |-> "skipped"], Outcome(r))
    /\ UNCHANGED <<appConfig, peer, clock, arg, orders, shipments, cache>>

AdminKeysRead == \E w \in Writers : KeysPutRead(w)

AdminKeysWrite ==
    \E w \in Writers, writeOk \in BOOLEAN :
        \E failing \in {"none"} \cup PutKeysToEncrypt(inflight[w].body) :
            /\ failing # "none" => writeOk
            /\ KeysPutWrite(w, put_keys(ClientIdChars, inflight[w].body, inflight[w].existing,
                                        inflight[w].now, failing), writeOk)

NextKeysPut == AdminKeysRead \/ AdminKeysWrite

SpecKeysPut == InitKeysPut /\ [][NextKeysPut]_vars

\* the callers whose request was applied and supplied field f
AppliedSuppliers(f) ==
    {w \in Writers : /\ inflight[w].pc = "done"
                     /\ f \in DOMAIN inflight[w].body
                     /\ inflight[w].body[f] # VNull}

\* C23: for any interleaving of two put_keys calls on one clientID, a field
\* supplied by a caller whose request was applied holds a value a caller
\* supplied for it (a secret, a wrapped value): updates to different fields
\* both survive, and a supplied webhook_url_test or webhook_url_live is not
\* replaced by the default URL the other call seeds
C23_SuppliedFieldsSurvive ==
    /\ \A f \in ADMIN_NON_SECRET_FIELDS \ {"updated_at"} :
          AppliedSuppliers(f) # {}
              => Stored(table, f) \in {inflight[w].body[f] : w \in AppliedSuppliers(f)}
    /\ \A f \in ADMIN_SECRET_FIELDS :
          AppliedSuppliers(f) # {} => IsWrappedValue(Stored(table, f))

\* the api_key inside the shipping_config stored in table t, None when absent
StoredApiKey(t) ==
    IF /\ "shipping_config" \in DOMAIN GetItem(t, TenantId)
       /\ GetItem(t, TenantId).shipping_config.k = "dict"
       /\ "api_key" \in DOMAIN GetItem(t, TenantId).shipping_config.d
    THEN GetItem(t, TenantId).shipping_config.d.api_key
    ELSE VNull

\* C24: when save_shipping_config is sent the configuration with api_key set
\* to the masked placeholder '****', the encrypted api_key stored before the
\* write is still the stored api_key after it
C24_MaskedWriteBackKeepsKey ==
    [][(/\ last'.op = "save_shipping_config"
        /\ last'.status = 200
        /\ PyTruthy(last'.req.body.shipping_config)
        /\ "api_key" \in DOMAIN last'.req.body.shipping_config.d
        /\ last'.req.body.shipping_config.d.api_key = VStr(Stars(4))
        /\ IsWrappedValue(StoredApiKey(table)))
          => StoredApiKey(table') = StoredApiKey(table)]_vars

(***************************************************************************)
(* src/stripe_cart.py handle_webhook and _process_payment_intent           *)
(***************************************************************************)
\* the signing secret Stripe holds for the tenant's endpoint
ActualWebhookSecret == << "w", "h", "_", "1" >>

PaymentIntents == {"pi_1", "pi_2"}

EventTypes == {"checkout.session.completed", "payment_intent.succeeded", "charge.refunded"}

\* who signed the delivery: nobody (no Stripe-Signature header), Stripe, or
\* a sender who does not know the secret and signs with the empty key
Signers == {"none", "stripe", "forger"}

SigningKey(signer) == IF signer = "stripe" THEN ActualWebhookSecret ELSE << >>

\* stripe.Webhook.construct_event: the header's HMAC is compared with the
\* HMAC of the payload under the secret it is given
construct_event(signer, secret) == SigningKey(signer) = secret

AutoFulfilSettings ==
    [shipping_provider |-> VStr(ShippoProvider),
     shipping_config |-> VDict([auto_fulfill |-> VBool(TRUE), api_key |-> VStr(W1)])]

\* item.get("shipping_config", {}).get("auto_fulfill") and item.get("shipping_provider")
AutoFulfils(item) ==
    /\ DOMAIN item # {}
    /\ "shipping_config" \in DOMAIN item
    /\ item.shipping_config.k = "dict"
    /\ "auto_fulfill" \in DOMAIN item.shipping_config.d
    /\ PyTruthy(item.shipping_config.d.auto_fulfill)
    /\ "shipping_provider" \in DOMAIN item
    /\ PyTruthy(item.shipping_provider)

order_record(client_id, mode, now) ==
    [client_id |-> client_id, mode |-> mode, payment_status |-> "succeeded",
     fulfilled |-> "false", order_date |-> now, created_at |-> now, updated_at |-> now]

\* what a successful create_shipment answers for the n-th label made
Tracking(n) ==
    [tracking_number |-> n, tracking_url |-> n, label_url |-> n,
     shipping_carrier |-> "carrier", fulfilled |-> "true"]

InitWebhook ==
    /\ table \in {One(TenantId, Merge(r, s)) :
                     r \in TenantRecords(W1), s \in {<< >>, AutoFulfilSettings}}
    /\ appConfig = << >>
    /\ peer = << >>
    /\ clock = 0
    /\ arg = << >>
    /\ inflight = << >>
    /\ orders = << >>
    /\ shipments = << >>
    /\ cache = ColdCache
    /\ last = Idle

\* _process_payment_intent: the order is put as a whole item; with
\* auto-fulfilment on, create_shipment is called and, when it succeeds, the
\* order is updated with the tracking data.  Every failure is logged only
_process_payment_intent(pi, client_id, mode, putOk, shipOk) ==
    IF ~putOk
    THEN UNCHANGED <<orders, shipments>>
    ELSE IF ~AutoFulfils(GetItem(table, TenantId))
    THEN /\ orders' = put_item(orders, pi, order_record(client_id, mode, VTime(clock + 1)))
         /\ UNCHANGED shipments
    ELSE /\ shipments' = Append(shipments, pi)
         /\ orders' = IF shipOk
                      THEN update_item(
                               put_item(orders, pi,
                                        order_record(client_id, mode, VTime(clock + 1))),
                               pi, Tracking(Len(shipments) + 1))
                      ELSE put_item(orders, pi, order_record(client_id, mode, VTime(clock + 1)))

Delivered(type, pi, signer, status) ==
    last' = Handled("handle_webhook",
                    Request("", [type |-> type, payment_intent |-> pi, signer |-> signer]),
                    status, << >>, Ret(<< >>, << >>))

\* handle_webhook, t being what load_stripe_tenant_with_offer returned;
\* apiOk: the Session and PaymentIntent retrievals answer
WebhookStep(t, type, pi, signer, apiOk, putOk, shipOk) ==
    IF t.exc # "none" \/ signer = "none"
    THEN Delivered(type, pi, signer, 400) /\ UNCHANGED <<orders, shipments>>
    ELSE IF ~construct_event(signer, t.val.webhook_secret)
    THEN Delivered(type, pi, signer, 400) /\ UNCHANGED <<orders, shipments>>
    ELSE IF type = "checkout.session.completed" /\ ~apiOk
    THEN Delivered(type, pi, signer, 400) /\ UNCHANGED <<orders, shipments>>
    ELSE IF type = "charge.refunded"
    THEN Delivered(type, pi, signer, 200) /\ UNCHANGED <<orders, shipments>>
    ELSE /\ Delivered(type, pi, signer, 200)
         /\ _process_payment_intent(pi, t.val.client_id, t.val.mode, putOk, shipOk)

HandleWebhook ==
    \E type \in EventTypes, pi \in PaymentIntents, signer \in Signers :
        \E f \in KmsFaults, f2 \in KmsFaults, apiOk \in BOOLEAN, putOk \in BOOLEAN,
           shipOk \in BOOLEAN :
            /\ clock < MaxClock
            /\ clock' = clock + 1
            /\ WebhookStep(load_stripe_tenant_with_offer(GetItem(table, TenantId), f, f2),
                           type, pi, signer, apiOk, putOk, shipOk)
            /\ UNCHANGED <<table, appConfig, peer, arg, inflight, cache>>

NextWebhook == HandleWebhook

SpecWebhook == InitWebhook /\ [][NextWebhook]_vars

\* C25: handle_webhook writes an order, and accepts a payload, only when the
\* payload's signature was made with the tenant's actual signing secret; in
\* particular no payload is accepted when the stored webhook secret cannot
\* be decrypted
C25_OnlyVerifiedPayloads ==
    [][(last'.op = "handle_webhook" /\ (orders' # orders \/ last'.status = 200))
          => SigningKey(last'.req.body.signer) = ActualWebhookSecret]_vars

\* the order holds the tracking data of a label
Fulfilled(o, pi) ==
    /\ pi \in DOMAIN o
    /\ o[pi].fulfilled = "true"
    /\ "tracking_number" \in DOMAIN o[pi]

\* C26: once an order is fulfilled with tracking data, no later webhook
\* delivery for the same payment intent resets fulfilled or drops its
\* tracking_number or label_url
C26_FulfilledNotReset ==
    [][\A pi \in PaymentIntents :
          Fulfilled(orders, pi)
              => /\ Fulfilled(orders', pi)
                 /\ orders'[pi].tracking_number = orders[pi].tracking_number
                 /\ orders'[pi].label_url = orders[pi].label_url]_vars

\* C27: with auto_fulfill enabled, webhook processing calls create_shipment
\* at most once per payment intent, whatever deliveries arrive for it
C27_OneShipmentPerIntent ==
    \A pi \in PaymentIntents :
        Cardinality({i \in 1..Len(shipments) : shipments[i] = pi}) <= 1

(***************************************************************************)
(* src/admin_keys.py put_keys with PEER_STRIPE_KEYS_TABLE configured        *)
(***************************************************************************)
\* a put_keys that mirrors to the peer table whatever became of the primary
put_keys_sync_peer_regardless(tbl, p, item, writeOk, peerOk) ==
    [table |-> IF writeOk THEN update_item(tbl, TenantId, item) ELSE tbl,
     peer |-> IF peerOk THEN update_item(p, TenantId, item) ELSE p,
     status |-> IF writeOk THEN 200 ELSE 400,
     peer_sync |-> IF peerOk THEN "synced" ELSE "failed"]

\* the two _apply_update calls of put_keys and what it answers: writeOk and
\* peerOk tell whether the primary and the peer update_item succeed
put_keys_sync(tbl, p, item, writeOk, peerOk) ==
    IF ~writeOk
    THEN [table |-> tbl, peer |-> p, status |-> 400, peer_sync |-> "skipped"]
    ELSE IF ~peerOk
    THEN [table |-> update_item(tbl, TenantId, item), peer |-> p, status |-> 200,
          peer_sync |-> "failed"]
    ELSE [table |-> update_item(tbl, TenantId, item),
          peer |-> update_item(p, TenantId, item), status |-> 200, peer_sync |-> "synced"]

PeerInputs == [pk_test |-> {VStr(PK1), VStr(PK2)}, sk_test |-> {VStr(SK1)}]

\* lambda_handler: PUT /admin/stripe-keys by the owner, r being what
\* put_keys built and w the outcome of its writes
PeerPutStep(body, r, w) ==
    IF r.exc # "none"
    THEN /\ last' = Handled("put_keys", Request(TenantId, body), 502, << >>, Outcome(r))
         /\ UNCHANGED <<table, peer>>
    ELSE /\ table' = w.table
         /\ peer' = w.peer
         /\ last' = Handled("put_keys", Request(TenantId, body), w.status,
                            IF w.status = 200
                            THEN [updated |-> DOMAIN r.val \cup {"clientID"},
                                  peer_sync |-> w.peer_sync]
                            ELSE << >>, Outcome(r))

PeerPutWith(body, r, writeOk, peerOk) ==
    PeerPutStep(body, r,
                put_keys_sync(table, peer, IF r.exc = "none" THEN r.val ELSE << >>,
                              writeOk, peerOk))

PeerKeysPut ==
    \E body \in Bodies(PeerInputs) :
        \E failing \in {"none"} \cup PutKeysToEncrypt(body), writeOk, peerOk \in BOOLEAN :
            /\ clock < MaxClock
            /\ clock' = clock + 1
            /\ failing # "none" => (writeOk /\ peerOk)
            /\ ~writeOk => peerOk
            /\ PeerPutWith(body,
                           put_keys(ClientIdChars, body, GetItem(table, TenantId),
                                    VTime(clock + 1), failing),
                           writeOk, peerOk)
            /\ UNCHANGED <<appConfig, arg, inflight, orders, shipments, cache>>

NextPeer == PeerKeysPut \/ AdminKeysGet

SpecPeer == Init /\ [][NextPeer]_vars

\* the request handled last committed its update to tbl
CommittedTo(tbl) ==
    /\ TenantId \in DOMAIN tbl
    /\ "updated_at" \in DOMAIN tbl[TenantId]
    /\ tbl[TenantId].updated_at = VTime(clock)

ENVIRONMENT == "dev"

ConfigValues == {VStr(<< "u", "1" >>), VStr(<< "u", "2" >>), VBool(TRUE)}

TtlSettings == {0, 1, 2}

Max(a, b) == IF a >= b THEN a ELSE b

\* max(TTL_SEC, 1)
CacheTtl == Max(arg.ttl_sec, 1)

\* _scan_env(env): config_key -> value of the rows of environment env
_scan_env(tbl, env) ==
    [k \in {r[2] : r \in {x \in DOMAIN tbl : x[1] = env}} |-> tbl[<<env, k>>]]

_merge_global_and_env(tbl) ==
    LET cfg == Merge(Merge(_scan_env(tbl, "global"), _scan_env(tbl, ENVIRONMENT)),
                     One("environment", VStr(<< "d", "e", "v" >>)))
    IN  IF "api_base_url" \in DOMAIN cfg /\ IsStr(cfg.api_base_url)
        THEN Merge(cfg, One("apiBase", cfg.api_base_url))
        ELSE cfg

Scan(env, ok) == [op |-> "scan", env |-> env, ok |-> ok]

\* the scans made when the first scansOk of them succeed
Scans(scansOk) ==
    IF scansOk = 0 THEN << Scan("global", FALSE) >>
    ELSE IF scansOk = 1 THEN << Scan("global", TRUE), Scan(ENVIRONMENT, FALSE) >>
    ELSE << Scan("global", TRUE), Scan(ENVIRONMENT, TRUE) >>

\* a load_config that serves the cache to a caller who passed force=True
load_config_ignores_force(c, tbl, now, force, scansOk, ttl) ==
    IF c.data # VNull /\ now < c.expires_at
    THEN [cache |-> c, out |-> Ret(c.data, << >>), read_at |-> c.read_at]
    ELSE IF scansOk < 2
    THEN [cache |-> c, out |-> Raise("ConfigError", "", Scans(scansOk)), read_at |-> now]
    ELSE [cache |-> [data |-> VDict(_merge_global_and_env(tbl)), expires_at |-> now + ttl,
                     read_at |-> now],
          out |-> Ret(VDict(_merge_global_and_env(tbl)), Scans(scansOk)), read_at |-> now]

\* a load_config that drops the cached snapshot when the reload fails
load_config_clears_on_failure(c, tbl, now, force, scansOk, ttl) ==
    IF ~force /\ c.data # VNull /\ now < c.expires_at
    THEN [cache |-> c, out |-> Ret(c.data, << >>), read_at |-> c.read_at]
    ELSE IF scansOk < 2
    THEN [cache |-> ColdCache, out |-> Raise("ConfigError", "", Scans(scansOk)),
          read_at |-> now]
    ELSE [cache |-> [data |-> VDict(_merge_global_and_env(tbl)), expires_at |-> now + ttl,
                     read_at |-> now],
          out |-> Ret(VDict(_merge_global_and_env(tbl)), Scans(scansOk)), read_at |-> now]

\* load_config(force) at time now with cache c: the cache afterwards, what
\* the call returns or raises with the scans it made, and when the returned
\* configuration was read.  A failing scan raises ClientError
load_config(c, tbl, now, force, scansOk, ttl) ==
    IF ~force /\ c.data # VNull /\ now < c.expires_at
    THEN [cache |-> c, out |-> Ret(c.data, << >>), read_at |-> c.read_at]
    ELSE IF scansOk < 2
    THEN [cache |-> c, out |-> Raise("ConfigError", "", Scans(scansOk)), read_at |-> now]
    ELSE [cache |-> [data |-> VDict(_merge_global_and_env(tbl)), expires_at |-> now + ttl,
                     read_at |-> now],
          out |-> Ret(VDict(_merge_global_and_env(tbl)), Scans(scansOk)), read_at |-> now]

InitConfig ==
    /\ table = << >>
    /\ peer = << >>
    /\ appConfig \in {<< >>} \cup {One(<<"global", "api_base_url">>, v) : v \in ConfigValues}
    /\ clock = 0
    /\ arg \in [ttl_sec : TtlSettings]
    /\ inflight = << >>
    /\ orders = << >>
    /\ shipments = << >>
    /\ cache = ColdCache
    /\ last = Idle

LoadConfigStep(force, r) ==
    /\ cache' = r.cache
    /\ last' = Handled("load_config", Request("", [force |-> force]), 0,
                       [read_at |-> r.read_at], r.out)

LoadConfig ==
    \E force \in BOOLEAN, scansOk \in 0..2 :
        /\ LoadConfigStep(force, load_config(cache, appConfig, clock, force, scansOk, CacheTtl))
        /\ UNCHANGED <<table, appConfig, peer, clock, arg, inflight, orders, shipments>>

InvalidateCache ==
    /\ cache' = ColdCache
    /\ last' = Handled("invalidate_cache", Request("", << >>), 0, << >>, Ret(<< >>, << >>))
    /\ UNCHANGED <<table, appConfig, peer, clock, arg, inflight, orders, shipments>>

\* config_api._put_item: the admin API writes a row of this environment
PutConfigRow ==
    \E v \in ConfigValues :
        /\ appConfig' = Merge(appConfig, One(<<ENVIRONMENT, "api_base_url">>, v))
        /\ last' = Handled("put_item", Request("", << >>), 0, << >>, Ret(<< >>, << >>))
        /\ UNCHANGED <<table, peer, clock, arg, inflight, orders, shipments, cache>>

\* a second passes
Tick ==
    /\ clock < MaxClock
    /\ clock' = clock + 1
    /\ UNCHANGED <<table, appConfig, peer, last, arg, inflight, orders, shipments, cache>>

NextConfig == LoadConfig \/ InvalidateCache \/ PutConfigRow \/ Tick

SpecConfig == InitConfig /\ [][NextConfig]_vars

\* the step is a call of load_config
LoadStep == last'.op = "load_config" /\ clock' = clock /\ appConfig' = appConfig

\* the call must read the table: it is forced, nothing was loaded since the
\* start or the last invalidate_cache, or the snapshot is max(TTL, 1) old
MustRead ==
    \/ last'.req.body.force
    \/ cache.data = VNull
    \/ clock >= cache.read_at + CacheTtl

\* C29: a configuration returned by load_config was read less than
\* max(CONFIG_CACHE_TTL_SECONDS, 1) seconds before the call and not before
\* the last invalidate_cache: a call that is forced, follows expiry or
\* follows invalidate_cache reads the table and returns what it holds; any
\* other call reads nothing and returns the cached snapshot
C29_CacheFreshness ==
    [][/\ last'.op = "invalidate_cache" => cache'.data = VNull
       /\ LoadStep
             => /\ MustRead
                      => /\ last'.out.calls # << >>
                         /\ last'.out.exc = "none"
                               => /\ last'.out.val = VDict(_merge_global_and_env(appConfig))
                                  /\ last'.body.read_at = clock
                                  /\ cache'.data = last'.out.val
                /\ ~MustRead
                      => /\ last'.out.calls = << >>
                         /\ last'.out.exc = "none"
                         /\ last'.out.val = cache.data
                         /\ cache' = cache
                /\ last'.out.exc = "none"
                      => /\ clock - last'.body.read_at < CacheTtl
                         /\ last'.body.read_at = cache'.read_at]_vars

\* the table changed after the snapshot was read; a second later, within a
\* TTL of 2, a call without force read nothing and returned the snapshot
C29_Witness ==
    /\ last.op = "load_config"
    /\ ~last.req.body.force
    /\ last.out.exc = "none"
    /\ last.out.calls = << >>
    /\ arg.ttl_sec = 2
    /\ clock = 1
    /\ last.body.read_at = 0
    /\ last.out.val = cache.data
    /\ last.out.val # VDict(_merge_global_and_env(appConfig))

\* one of the scans of the call failed
ReadFailed(calls) == \E i \in 1..Len(calls) : ~calls[i].ok

====
